---- MODULE Spec2Model ----
(***************************************************************************)
(* MapSieve-AI: the extraction and reconciliation pipeline.                *)
(*                                                                         *)
(* Strings are sequences of one-character strings, so that lower-casing,   *)
(* whitespace removal, splitting and substring tests are computed, not     *)
(* assumed.  An optional field (googleMapsUri, address, imageUri) holds    *)
(* the empty sequence when it is absent: the code only ever tests such a   *)
(* field for truthiness, and "" and undefined are both falsy.  Optional    *)
(* objects (coordinates, the catalogue itself) are sets with zero or one   *)
(* element.                                                                *)
(***************************************************************************)
EXTENDS Integers, Sequences, FiniteSets, TLC

VARIABLES
    pc,          \* position of the run of deduplicatePlaces / of the consumers
    places,      \* the argument of deduplicatePlaces (in the App: of the call
                 \* that made the present catalogue, <<>> when none did)
    deduped,     \* its return value
    kml,         \* the placemarks generateKML wrote
    markers,     \* the markers MapView drew
    result,      \* App: the catalogue, {} for null, else {[places |-> ...]}
    selectedPlaceId,  \* App: "" for null
    isLoading,   \* App
    error,       \* App: "" for null
    pendingAnalyze,   \* App: calls of handleAnalyze awaiting analyzeMapData
    pendingAppend,    \* App: calls of handleAppendAnalyze awaiting it
    rpc,         \* retryOperation: "idle", "call" (operation invoked and
                 \* awaited), "wait" (setTimeout pending), "returned", "thrown"
    retries,     \* retryOperation: the parameter of the present frame
    delay,       \* retryOperation: the parameter of the present frame
    retryArgs,   \* the arguments of the outermost call of retryOperation
    invocations, \* how many times operation() has been called
    waited,      \* the delays handed to setTimeout, in order
    caught,      \* the rejection caught by the present frame, <<>> when none
    failedSoFar, \* "none" | "transient" (every rejection so far was
                 \* retryable and not null) | "mixed"
    outcome,     \* what the outermost call settled with, <<>> while pending
    parsed,      \* analyzeMapData: parsed.places as cleanAndParseJSON gave them
    groundingChunks,  \* analyzeMapData: {} for undefined, else {the chunks}
    label,       \* parseLocation: its argument, a JavaScript value
    location,    \* parseLocation: <<>> before it returns, else <<its result>>
    raised,      \* what a call of deduplicatePlaces threw, <<>> when nothing
    text,        \* analyzeMapData: response.text
    parsedJson,  \* what cleanAndParseJSON settled with, <<>> before the call
    analysis     \* what analyzeMapData settled with, <<>> before it does

pipeVars == <<pc, kml, markers>>
callVars == <<places, deduped>>
appVars == <<result, selectedPlaceId, isLoading, error, pendingAnalyze, pendingAppend>>
retryVars == <<rpc, retries, delay, retryArgs, invocations, waited, caught,
               failedSoFar, outcome>>
xrefVars == <<parsed, groundingChunks>>
locateVars == <<label, location, raised>>
parseVars == <<text, parsedJson, analysis>>
vars == <<pipeVars, callVars, appVars, retryVars, xrefVars, locateVars, parseVars>>

\* No call of retryOperation is being followed.
retryIdle ==
    /\ rpc = "idle"
    /\ retries = 0
    /\ delay = 0
    /\ retryArgs = <<>>
    /\ invocations = 0
    /\ waited = <<>>
    /\ caught = <<>>
    /\ failedSoFar = "none"
    /\ outcome = <<>>

\* No run of analyzeMapData's post-processing is being followed.
xrefIdle ==
    /\ parsed = <<>>
    /\ groundingChunks = {}

\* No call of parseLocation and no raising call of deduplicatePlaces is
\* being followed.
locateIdle ==
    /\ label = [t |-> "undefined", v |-> <<>>]
    /\ location = <<>>
    /\ raised = <<>>

\* No response is being parsed.
parseIdle ==
    /\ text = <<>>
    /\ parsedJson = <<>>
    /\ analysis = <<>>

----------------------------------------------------------------------------
(* Bounds *)

\* Longest argument of deduplicatePlaces that is explored over the core
\* records, and over all the records.
MaxLen == 3
MaxWideLen == 2


\* Most records one extraction returns before its own deduplication.
MaxBatch == 1

\* Most extraction calls in flight at a time.
MaxPending == 2

\* Largest retries argument of retryOperation that is explored (its default
\* is 3), and the delay arguments explored (its default is 1000).
MaxRetries == 3
InitialDelays == {1000, 300}

\* Most places in one parsed response, and most grounding chunks with it.
MaxParsed == 2
MaxChunks == 2


----------------------------------------------------------------------------
(* Strings *)

\* String.prototype.toLowerCase on one character of the alphabet in use.
Lower(c) ==
    CASE c = "A" -> "a"
      [] c = "B" -> "b"
      [] c = "C" -> "c"
      [] c = "K" -> "k"
      [] c = "T" -> "t"
      [] c = "J" -> "j"
      [] c = "S" -> "s"
      [] c = "O" -> "o"
      [] c = "N" -> "n"
      [] OTHER -> c

toLowerCase(s) == [i \in 1..Len(s) |-> Lower(s[i])]

\* The regular expression class \s, on the alphabet in use.
IsSpace(c) == c \in {" ", "\t", "\n", "\r"}

\* s.replace(/\s+/g, '')
removeWhitespace(s) == SelectSeq(s, LAMBDA c : ~IsSpace(c))

\* s.includes(sub)
includes(s, sub) ==
    \E i \in 0..(Len(s) - Len(sub)) : SubSeq(s, i + 1, i + Len(sub)) = sub

\* s.split(' ')[0]: the text before the first space character (the whole
\* string when it holds none).
RECURSIVE firstToken(_)
firstToken(s) ==
    IF s = <<>> \/ Head(s) = " " THEN <<>>
    ELSE <<Head(s)>> \o firstToken(Tail(s))

SEARCH == <<"s", "e", "a", "r", "c", "h">>

----------------------------------------------------------------------------
(* Numbers, as Number(x) sees them *)

Num(n) == [kind |-> "num", v |-> n]
NaN == [kind |-> "nan", v |-> 0]
Infinity == [kind |-> "inf", v |-> 0]

isFinite(x) == x.kind = "num"

abs(n) == IF n < 0 THEN -n ELSE n

\* MapView's validator: {<<lat, lng>>} when both are finite and in range,
\* {} (null) otherwise.
validateLatLng(lat, lng) ==
    IF isFinite(lat) /\ isFinite(lng)
    THEN IF abs(lat.v) <= 90 /\ abs(lng.v) <= 180
         THEN {<<lat.v, lng.v>>}
         ELSE {}
    ELSE {}

----------------------------------------------------------------------------
(* Place records *)

Place(id, name, loc, uri, ver, coords, addr, img, desc) ==
    [id |-> id, name |-> name, locationGuess |-> loc, googleMapsUri |-> uri,
     isVerified |-> ver, coordinates |-> coords, address |-> addr,
     imageUri |-> img, description |-> desc]

\* Everything of a record but its id.
Content(p) == [p EXCEPT !.id = ""]

LatLng(lat, lng) == {[lat |-> lat, lng |-> lng]}

----------------------------------------------------------------------------
(* deduplicatePlaces *)

\* `NAME:${normName}-${normLoc}`
nameKey(p) ==
    LET normName == removeWhitespace(toLowerCase(p.name))
        normLoc == removeWhitespace(toLowerCase(firstToken(p.locationGuess)))
    IN <<"N", "A", "M", "E", ":">> \o normName \o <<"-">> \o normLoc

\* `URI:${p.googleMapsUri}`
uriKey(p) == <<"U", "R", "I", ":">> \o p.googleMapsUri

\* The key of a record: its map URI when it carries one that does not hold
\* 'search', else its normalised name and the first token of its location.
keyOf(p) ==
    IF p.googleMapsUri # <<>> /\ ~includes(p.googleMapsUri, SEARCH)
    THEN uriKey(p)
    ELSE nameKey(p)

\* uniqueMap is a JavaScript Map: a sequence of entries in insertion order.
\* uniqueMap.get(key): the index of the entry of that key, 0 when there is none.
mapIndex(uniqueMap, key) ==
    IF \E i \in 1..Len(uniqueMap) : uniqueMap[i].key = key
    THEN CHOOSE i \in 1..Len(uniqueMap) : uniqueMap[i].key = key
    ELSE 0

\* A faulty variant of mapSet: a replaced entry is deleted and added again at the end.
mapSet_MoveToEnd(uniqueMap, key, value) ==
    Append(SelectSeq(uniqueMap, LAMBDA e : e.key # key), [key |-> key, value |-> value])

\* uniqueMap.set(key, value): a new key is appended, the value of a key that
\* is present is replaced where it stands.
mapSet(uniqueMap, key, value) ==
    LET i == mapIndex(uniqueMap, key)
    IN IF i = 0
       THEN Append(uniqueMap, [key |-> key, value |-> value])
       ELSE [uniqueMap EXCEPT ![i] = [key |-> key, value |-> value]]

\* Array.from(uniqueMap.values())
mapValues(uniqueMap) == [i \in 1..Len(uniqueMap) |-> uniqueMap[i].value]

\* A faulty variant of keepOldId: the replacing record keeps its own id.
keepOldId_NewId(existing, p) == p

\* A faulty variant of keepOldId: an address the replacing record lacks is
\* taken over from the replaced one.
keepOldId_Blend(existing, p) ==
    [p EXCEPT !.id = existing.id,
              !.address = IF p.address = <<>> THEN existing.address ELSE p.address]

\* { ...p, id: existing.id }
keepOldId(existing, p) == [p EXCEPT !.id = existing.id]

\* A faulty variant of baseScore: the image is not counted.
baseScore_NoImage(p) ==
      (IF p.coordinates # {} THEN 4 ELSE 0)
    + (IF p.address # <<>> THEN 2 ELSE 0)

\* The part of the completeness score that looks at one record alone, in
\* half points: 2 for coordinates, 1 for an address, 1 for an image.
baseScore(p) ==
      (IF p.coordinates # {} THEN 4 ELSE 0)
    + (IF p.address # <<>> THEN 2 ELSE 0)
    + (IF p.imageUri # <<>> THEN 2 ELSE 0)

\* scoreExisting and scoreNew at the comparison, in half points: the 0.5 for
\* the description goes to existing when its description is strictly longer
\* and to the new record otherwise.
scoreExisting(existing, p) ==
    baseScore(existing)
    + (IF Len(existing.description) > Len(p.description) THEN 1 ELSE 0)

scoreNew(existing, p) ==
    baseScore(p)
    + (IF Len(existing.description) > Len(p.description) THEN 0 ELSE 1)

\* A faulty variant of newIsBetter: a verified entry is not protected from an
\* unverified record of a higher score.
newIsBetter_ScoreOnly(existing, p) ==
    IF ~existing.isVerified /\ p.isVerified THEN TRUE
    ELSE scoreNew(existing, p) > scoreExisting(existing, p)

\* The MERGE LOGIC's verdict on a record p that meets the entry existing of
\* its key: TRUE when p replaces it.
newIsBetter(existing, p) ==
    IF ~existing.isVerified /\ p.isVerified THEN TRUE
    ELSE IF existing.isVerified /\ ~p.isVerified THEN FALSE
    ELSE scoreNew(existing, p) > scoreExisting(existing, p)

\* One iteration of places.forEach.
forEachStep(uniqueMap, p) ==
    LET key == keyOf(p)
        i == mapIndex(uniqueMap, key)
    IN IF i = 0
       THEN mapSet(uniqueMap, key, p)
       ELSE LET existing == uniqueMap[i].value
            IN IF newIsBetter(existing, p)
               THEN mapSet(uniqueMap, key, keepOldId(existing, p))
               ELSE uniqueMap

\* A faulty variant of forEach: the loop stops one element early.
RECURSIVE forEach_OffByOne(_, _)
forEach_OffByOne(ps, uniqueMap) ==
    IF Len(ps) <= 1 THEN uniqueMap
    ELSE forEach_OffByOne(Tail(ps), forEachStep(uniqueMap, Head(ps)))

RECURSIVE forEach(_, _)
forEach(ps, uniqueMap) ==
    IF ps = <<>> THEN uniqueMap
    ELSE forEach(Tail(ps), forEachStep(uniqueMap, Head(ps)))

deduplicatePlaces(ps) == mapValues(forEach(ps, <<>>))

----------------------------------------------------------------------------
(* The consumers of coordinates *)

\* generateKML: one placemark, <<name, lng, lat>>, per record that has a
\* coordinates object.
RECURSIVE generateKML(_)
generateKML(ps) ==
    IF ps = <<>> THEN <<>>
    ELSE LET place == Head(ps)
         IN (IF place.coordinates # {}
             THEN LET c == CHOOSE x \in place.coordinates : TRUE
                  IN <<[name |-> place.name, lng |-> c.lng, lat |-> c.lat]>>
             ELSE <<>>)
            \o generateKML(Tail(ps))

\* MapView: one marker, <<id, lat, lng>>, per record whose coordinates pass
\* validateLatLng.
RECURSIVE renderMarkers(_)
renderMarkers(ps) ==
    IF ps = <<>> THEN <<>>
    ELSE LET p == Head(ps)
             validCoords ==
                 IF p.coordinates # {}
                 THEN LET c == CHOOSE x \in p.coordinates : TRUE
                      IN validateLatLng(c.lat, c.lng)
                 ELSE {}
         IN (IF validCoords # {}
             THEN <<[id |-> p.id, at |-> CHOOSE v \in validCoords : TRUE]>>
             ELSE <<>>)
            \o renderMarkers(Tail(ps))

----------------------------------------------------------------------------
(* The records explored *)

NameIchiran == <<"A", "b">>
NameIchiranSpaced == <<"a", " ", "B">>       \* the same name after normalisation
NameCafe == <<"C">>

LocKyoto == <<"K", " ", "x">>                \* "Region Subregion"
LocKyotoBare == <<"k">>

UriA == <<"g", "o", "o", "g", "l", "e", "/", "1">>
UriB == <<"g", "o", "o", "g", "l", "e", "/", "2">>
UriSearch == <<"g", "o", "o", "g", "l", "e", "/">> \o SEARCH

NoCoords == {}
GoodCoords == LatLng(Num(35), Num(135))
BadCoords == LatLng(Num(1000), Num(0))
NaNCoords == LatLng(NaN, Num(0))

Ids == {"p1", "p9"}

\* What the extraction can put in a record, id aside.  All but the last are
\* records analyzeMapData can return; the last carries a generic search
\* link, which only a direct caller of deduplicatePlaces can pass.
Shapes(id) ==
    << Place(id, NameIchiran, LocKyoto, <<>>, FALSE, NoCoords, <<>>, <<>>, <<"x">>),
       Place(id, NameIchiranSpaced, LocKyotoBare, <<>>, TRUE, GoodCoords, <<>>, <<>>, <<"x">>),
       Place(id, NameIchiran, LocKyoto, <<>>, FALSE, NoCoords, <<>>, <<>>, <<"z">>),
       Place(id, NameCafe, LocKyoto, <<>>, FALSE, GoodCoords, <<>>, <<>>, <<"x">>),
       Place(id, NameIchiran, LocKyoto, UriA, FALSE, NoCoords, <<>>, <<>>, <<"x">>),
       Place(id, NameIchiran, LocKyoto, <<>>, FALSE, NoCoords, <<"a">>, <<"i">>, <<"x", "y">>),
       Place(id, NameIchiran, LocKyoto, <<>>, FALSE, BadCoords, <<>>, <<>>, <<"x">>),
       Place(id, NameCafe, LocKyoto, <<>>, FALSE, NaNCoords, <<>>, <<>>, <<"x">>),
       Place(id, NameIchiran, LocKyoto, UriB, FALSE, NoCoords, <<>>, <<>>, <<"x">>),
       Place(id, NameCafe, LocKyoto, UriA, TRUE, GoodCoords, <<>>, <<>>, <<"x", "y">>),
       Place(id, NameIchiran, LocKyoto, UriSearch, TRUE, NoCoords, <<>>, <<>>, <<"z">>) >>

NumShapes == Len(Shapes("p1"))

Universe == { Shapes(id)[k] : id \in Ids, k \in 1..NumShapes }

\* The core records: two keys, and under the first an unverified record, a
\* verified one, one that ties with the first and one of a higher score.
CoreShapes == {1, 2, 3, 4, 6}

CoreUniverse == { Shapes(id)[k] : id \in Ids, k \in CoreShapes }

SeqsUpTo(S, n) == UNION { [1..k -> S] : k \in 0..n }

----------------------------------------------------------------------------
(* deduplicatePlaces as a function: an argument is drawn, the function runs *)

InitDedup ==
    /\ pc = "input"
    /\ places \in SeqsUpTo(CoreUniverse, MaxLen) \cup SeqsUpTo(Universe, MaxWideLen)
    /\ deduped = <<>>
    /\ kml = <<>>
    /\ markers = <<>>
    /\ result = {}
    /\ selectedPlaceId = ""
    /\ isLoading = FALSE
    /\ error = ""
    /\ pendingAnalyze = 0
    /\ pendingAppend = 0
    /\ retryIdle
    /\ xrefIdle
    /\ locateIdle
    /\ parseIdle

Deduplicate ==
    /\ pc = "input"
    /\ deduped' = deduplicatePlaces(places)
    /\ pc' = "deduped"
    /\ UNCHANGED <<xrefVars, locateVars, parseVars, retryVars, places, kml, markers, appVars>>

\* handleExportKML on the deduplicated catalogue.
ExportKML ==
    /\ pc = "deduped"
    /\ kml' = generateKML(deduped)
    /\ pc' = "exported"
    /\ UNCHANGED <<xrefVars, locateVars, parseVars, retryVars, places, deduped, markers, appVars>>

\* MapView's effect on the deduplicated catalogue.
RenderMap ==
    /\ pc = "deduped"
    /\ markers' = renderMarkers(deduped)
    /\ pc' = "rendered"
    /\ UNCHANGED <<xrefVars, locateVars, parseVars, retryVars, places, deduped, kml, appVars>>

NextDedup == Deduplicate \/ ExportKML \/ RenderMap

SpecDedup == InitDedup /\ [][NextDedup]_vars

----------------------------------------------------------------------------
(* App: the catalogue and the handlers that change it.  The summary of an  *)
(* AnalysisResult is left out: no handler reads it.                        *)

\* The records analyzeMapData can return: it has removed every link that
\* holds 'search'.
AppShapes == {1, 2, 4}

AppUniverse ==
    { p \in { Shapes(id)[k] : id \in Ids, k \in AppShapes } :
        ~includes(p.googleMapsUri, SEARCH) }

\* newData.places: analyzeMapData deduplicates each batch before returning it.
Batches == { deduplicatePlaces(b) : b \in SeqsUpTo(AppUniverse, MaxBatch) }

resultPlaces == (CHOOSE r \in result : TRUE).places

\* places.filter(p => p.id !== id)
removeId(ps, id) == SelectSeq(ps, LAMBDA p : p.id # id)

\* A faulty variant of appendUpdate: the new batch is set as the catalogue.
appendUpdate_Overwrite(prev, newPlaces) == {[places |-> newPlaces]}

\* A faulty variant of appendUpdate: the new batch is put before the catalogue.
appendUpdate_NewFirst(prev, newPlaces) ==
    IF prev = {} THEN {[places |-> newPlaces]}
    ELSE {[places |-> deduplicatePlaces(newPlaces \o (CHOOSE r \in prev : TRUE).places)]}

\* The updater handleAppendAnalyze passes to setResult.
appendUpdate(prev, newPlaces) ==
    IF prev = {} THEN {[places |-> newPlaces]}
    ELSE LET combinedPlaces == (CHOOSE r \in prev : TRUE).places \o newPlaces
             uniquePlaces == deduplicatePlaces(combinedPlaces)
         IN {[places |-> uniquePlaces]}

Init ==
    /\ pc = "app"
    /\ places = <<>>
    /\ deduped = <<>>
    /\ kml = <<>>
    /\ markers = <<>>
    /\ result = {}
    /\ selectedPlaceId = ""
    /\ isLoading = FALSE
    /\ error = ""
    /\ pendingAnalyze = 0
    /\ pendingAppend = 0
    /\ retryIdle
    /\ xrefIdle
    /\ locateIdle
    /\ parseIdle

\* handleAnalyze up to its await.
StartAnalyze ==
    /\ pendingAnalyze + pendingAppend < MaxPending
    /\ isLoading' = TRUE
    /\ error' = ""
    /\ pendingAnalyze' = pendingAnalyze + 1
    /\ UNCHANGED <<xrefVars, locateVars, parseVars, retryVars, pipeVars, callVars, result, selectedPlaceId, pendingAppend>>

\* handleAnalyze after analyzeMapData resolved with data.
AnalyzeSucceeds ==
    /\ pendingAnalyze > 0
    /\ \E data \in Batches : result' = {[places |-> data]}
    /\ places' = <<>>
    /\ deduped' = <<>>
    /\ isLoading' = FALSE
    /\ pendingAnalyze' = pendingAnalyze - 1
    /\ UNCHANGED <<xrefVars, locateVars, parseVars, retryVars, pipeVars, selectedPlaceId, error, pendingAppend>>

\* handleAnalyze after analyzeMapData rejected.
AnalyzeFails ==
    /\ pendingAnalyze > 0
    /\ error' = "failed"
    /\ isLoading' = FALSE
    /\ pendingAnalyze' = pendingAnalyze - 1
    /\ UNCHANGED <<xrefVars, locateVars, parseVars, retryVars, pipeVars, callVars, result, selectedPlaceId, pendingAppend>>

\* handleAppendAnalyze up to its await.
StartAppend ==
    /\ pendingAnalyze + pendingAppend < MaxPending
    /\ isLoading' = TRUE
    /\ pendingAppend' = pendingAppend + 1
    /\ UNCHANGED <<xrefVars, locateVars, parseVars, retryVars, pipeVars, callVars, result, selectedPlaceId, error, pendingAnalyze>>

\* handleAppendAnalyze after analyzeMapData resolved with newData.
AppendSucceeds ==
    /\ pendingAppend > 0
    /\ \E newPlaces \in Batches :
           /\ result' = appendUpdate(result, newPlaces)
           /\ places' = IF result = {} THEN <<>> ELSE resultPlaces \o newPlaces
           /\ deduped' = IF result = {} THEN <<>> ELSE (CHOOSE r \in result' : TRUE).places
    /\ isLoading' = FALSE
    /\ pendingAppend' = pendingAppend - 1
    /\ UNCHANGED <<xrefVars, locateVars, parseVars, retryVars, pipeVars, selectedPlaceId, error, pendingAnalyze>>

\* A faulty variant of AppendFails: the catalogue is cleared on a failure.
AppendFails_ClearsResult ==
    /\ pendingAppend > 0
    /\ isLoading' = FALSE
    /\ pendingAppend' = pendingAppend - 1
    /\ result' = {}
    /\ UNCHANGED <<xrefVars, locateVars, parseVars, retryVars, pipeVars, callVars, selectedPlaceId, error, pendingAnalyze>>

\* handleAppendAnalyze after analyzeMapData rejected: the error is rethrown
\* to the caller.
AppendFails ==
    /\ pendingAppend > 0
    /\ isLoading' = FALSE
    /\ pendingAppend' = pendingAppend - 1
    /\ UNCHANGED <<xrefVars, locateVars, parseVars, retryVars, pipeVars, callVars, result, selectedPlaceId, error, pendingAnalyze>>

\* handleRemovePlace(id), from the card of a record of the catalogue.
RemovePlace ==
    /\ result # {}
    /\ \E i \in 1..Len(resultPlaces) :
           result' = {[places |-> removeId(resultPlaces, resultPlaces[i].id)]}
    /\ places' = <<>>
    /\ deduped' = <<>>
    /\ UNCHANGED <<xrefVars, locateVars, parseVars, retryVars, pipeVars, selectedPlaceId, isLoading, error, pendingAnalyze, pendingAppend>>

\* setSelectedPlaceId(place.id), from the card or the marker of a record.
SelectPlace ==
    /\ result # {}
    /\ \E i \in 1..Len(resultPlaces) : selectedPlaceId' = resultPlaces[i].id
    /\ UNCHANGED <<xrefVars, locateVars, parseVars, retryVars, pipeVars, callVars, result, isLoading, error, pendingAnalyze, pendingAppend>>

\* handleReset
Reset ==
    /\ result' = {}
    /\ error' = ""
    /\ selectedPlaceId' = ""
    /\ places' = <<>>
    /\ deduped' = <<>>
    /\ UNCHANGED <<xrefVars, locateVars, parseVars, retryVars, pipeVars, isLoading, pendingAnalyze, pendingAppend>>

Next ==
    \/ StartAnalyze
    \/ AnalyzeSucceeds
    \/ AnalyzeFails
    \/ StartAppend
    \/ AppendSucceeds
    \/ AppendFails
    \/ RemovePlace
    \/ SelectPlace
    \/ Reset

Spec == Init /\ [][Next]_vars

----------------------------------------------------------------------------
(* JavaScript values an error object can carry in a field *)

undefined == [t |-> "undefined", v |-> <<>>]
Number(digits) == [t |-> "number", v |-> digits]
String(chars) == [t |-> "string", v |-> chars]

\* ToBoolean on those values.
truthy(x) ==
    CASE x.t = "undefined" -> FALSE
      [] x.t = "number" -> x.v # <<"0">>
      [] x.t = "string" -> x.v # <<>>

\* a || b
or(a, b) == IF truthy(a) THEN a ELSE b

\* What operation() can reject with.  isNull stands for a null or undefined
\* rejection; code, estatus and emessage are the fields of error.error, all
\* undefined when there is no error.error.  raisedAt tells the objects apart:
\* it is the number of the invocation that raised the object, 0 for an object
\* retryOperation made itself.
ErrorObject(status, message, code, estatus, emessage) ==
    [isNull |-> FALSE, status |-> status, message |-> message, code |-> code,
     estatus |-> estatus, emessage |-> emessage, raisedAt |-> 0]

null == [ErrorObject(undefined, undefined, undefined, undefined, undefined)
            EXCEPT !.isNull = TRUE]

n500 == Number(<<"5", "0", "0">>)
n503 == Number(<<"5", "0", "3">>)
n403 == Number(<<"4", "0", "3">>)
sINTERNAL == <<"I", "N", "T", "E", "R", "N", "A", "L">>
sInternalError == <<"I", "n", "t", "e", "r", "n", "a", "l", " ", "e", "r", "r", "o", "r">>
s500 == <<"5", "0", "0">>
s503 == <<"5", "0", "3">>
sOverloaded == <<"O", "v", "e", "r", "l", "o", "a", "d", "e", "d">>
sCapacity == <<"c", "a", "p", "a", "c", "i", "t", "y">>

\* new Error("Unknown error occurred (Script Error).")
UnknownError ==
    ErrorObject(undefined,
                String(<<"U", "n", "k", "n", "o", "w", "n", " ", "e", "r", "r", "o", "r", " ",
                         "o", "c", "c", "u", "r", "r", "e", "d", " ",
                         "(", "S", "c", "r", "i", "p", "t", " ", "E", "r", "r", "o", "r", ")", ".">>),
                undefined, undefined, undefined)

----------------------------------------------------------------------------
(* retryOperation *)

\* const status = error.status || error?.error?.code || error?.error?.status
statusOf(e) == or(or(e.status, e.code), e.estatus)

\* const message = error.message || error?.error?.message || ''
messageOf(e) == or(or(e.message, e.emessage), String(<<>>))

\* A faulty variant of isRetryable: the message is not looked at.
isRetryable_StatusOnly(e) ==
    LET status == statusOf(e)
    IN status = n500 \/ status = n503 \/ status = String(sINTERNAL)

isRetryable(e) ==
    LET status == statusOf(e)
        message == messageOf(e)
    IN \/ status = n500
       \/ status = n503
       \/ status = String(sINTERNAL)
       \/ /\ message.t = "string"
          /\ \/ includes(message.v, sInternalError)
             \/ includes(message.v, s500)
             \/ includes(message.v, s503)
             \/ includes(message.v, sOverloaded)
             \/ includes(message.v, sCapacity)

\* A faulty variant of rethrow: the error is wrapped in a new one that keeps
\* only its message.
rethrow_Wrapped(e) == ErrorObject(undefined, e.message, undefined, undefined, undefined)

\* throw error
rethrow(e) == e

\* A faulty variant of catchBlock: the count is taken as attempts, the first
\* included, so the last retry is not made.
catchBlock_CountsAttempts(e, left) ==
    IF e.isNull
    THEN IF left <= 1
         THEN [do |-> "throw", value |-> UnknownError]
         ELSE [do |-> "wait", value |-> e]
    ELSE IF ~isRetryable(e) THEN [do |-> "throw", value |-> e]
    ELSE IF left <= 1 THEN [do |-> "throw", value |-> e]
    ELSE [do |-> "wait", value |-> e]

\* A faulty variant of catchBlock: the retries left are tested before the
\* classification, so any error is retried while retries are left.
catchBlock_RetriesAny(e, left) ==
    IF left > 0 THEN [do |-> "wait", value |-> e]
    ELSE IF e.isNull THEN [do |-> "throw", value |-> UnknownError]
    ELSE [do |-> "throw", value |-> e]

\* A faulty variant of catchBlock: no guard for an absent error, so reading
\* error.status raises a TypeError out of the catch block.
catchBlock_NoGuard(e, left) ==
    IF e.isNull
    THEN [do |-> "throw",
          value |-> ErrorObject(undefined, String(<<"T", "y", "p", "e", "E", "r", "r", "o", "r">>),
                                undefined, undefined, undefined)]
    ELSE IF left <= 0 \/ ~isRetryable(e) THEN [do |-> "throw", value |-> e]
    ELSE [do |-> "wait", value |-> e]

\* A faulty variant of catchBlock: an absent error is never retried.
catchBlock_NullFatal(e, left) ==
    IF e.isNull THEN [do |-> "throw", value |-> UnknownError]
    ELSE IF ~isRetryable(e) THEN [do |-> "throw", value |-> e]
    ELSE IF left <= 0 THEN [do |-> "throw", value |-> e]
    ELSE [do |-> "wait", value |-> e]

\* The catch block up to its throw or its setTimeout: what the frame does
\* with a rejection, given the retries it has left.
catchBlock(e, left) ==
    IF e.isNull
    THEN IF left <= 0
         THEN [do |-> "throw", value |-> UnknownError]
         ELSE [do |-> "wait", value |-> e]
    ELSE IF ~isRetryable(e) THEN [do |-> "throw", value |-> rethrow(e)]
    ELSE IF left <= 0 THEN [do |-> "throw", value |-> rethrow(e)]
    ELSE [do |-> "wait", value |-> e]

\* retryOperation(operation, retries - 1, delay * 2): the arguments of the
\* next frame.
\* A faulty variant of nextRetries: the last retry is not counted.
nextRetries_LastFree(left) == IF left = 1 THEN left ELSE left - 1

nextRetries(left) == left - 1

\* A faulty variant of nextDelay: the delay grows by a second, not twofold.
nextDelay_Linear(d) == d + 1000

nextDelay(d) == d * 2

\* The rejections explored, one of each way the classification can go.
Errors ==
    { null,
      ErrorObject(n500, undefined, undefined, undefined, undefined),
      ErrorObject(n503, undefined, undefined, undefined, undefined),
      ErrorObject(String(sINTERNAL), undefined, undefined, undefined, undefined),
      ErrorObject(n403, String(<<"n", "o">>), undefined, undefined, undefined),
      ErrorObject(String(s500), undefined, undefined, undefined, undefined),
      ErrorObject(undefined, undefined, n500, undefined, undefined),
      ErrorObject(undefined, undefined, undefined, String(sINTERNAL), undefined),
      ErrorObject(Number(<<"0">>), undefined, n503, undefined, undefined),
      ErrorObject(n403, undefined, n500, undefined, undefined),
      ErrorObject(undefined, String(sInternalError), undefined, undefined, undefined),
      ErrorObject(undefined, String(<<"i", "n", "t", "e", "r", "n", "a", "l", " ", "e", "r", "r", "o", "r">>),
                  undefined, undefined, undefined),
      ErrorObject(undefined, String(<<"x">> \o s500), undefined, undefined, undefined),
      ErrorObject(undefined, String(s503 \o <<"!">>), undefined, undefined, undefined),
      ErrorObject(undefined, String(sOverloaded), undefined, undefined, undefined),
      ErrorObject(n403, String(sCapacity), undefined, undefined, undefined),
      ErrorObject(undefined, undefined, undefined, undefined, String(sOverloaded)),
      ErrorObject(undefined, n503, undefined, undefined, undefined),
      ErrorObject(undefined, undefined, undefined, undefined, undefined) }

InitRetry ==
    /\ pc = "retry"
    /\ places = <<>>
    /\ deduped = <<>>
    /\ kml = <<>>
    /\ markers = <<>>
    /\ result = {}
    /\ selectedPlaceId = ""
    /\ isLoading = FALSE
    /\ error = ""
    /\ pendingAnalyze = 0
    /\ pendingAppend = 0
    /\ rpc = "call"
    /\ retries \in 0..MaxRetries
    /\ delay \in InitialDelays
    /\ retryArgs = [retries |-> retries, delay |-> delay]
    /\ invocations = 0
    /\ waited = <<>>
    /\ caught = <<>>
    /\ failedSoFar = "none"
    /\ outcome = <<>>
    /\ xrefIdle
    /\ locateIdle
    /\ parseIdle

\* return await operation(), the operation fulfilling; the value is told
\* apart by the number of the invocation that gave it.
OperationResolves ==
    /\ rpc = "call"
    /\ invocations' = invocations + 1
    /\ outcome' = <<[kind |-> "returned", value |-> [resolvedAt |-> invocations + 1]]>>
    /\ rpc' = "returned"
    /\ UNCHANGED <<pipeVars, callVars, appVars, xrefVars, locateVars, parseVars, retries, delay, retryArgs, waited,
                   caught, failedSoFar>>

\* await operation(), the operation rejecting, and the catch block up to its
\* throw or its setTimeout.
OperationRejects ==
    /\ rpc = "call"
    /\ \E shape \in Errors :
         LET e == [shape EXCEPT !.raisedAt = invocations + 1]
             handled == catchBlock(e, retries)
         IN /\ invocations' = invocations + 1
            /\ caught' = <<e>>
            /\ failedSoFar' =
                 IF failedSoFar # "mixed" /\ ~e.isNull /\ isRetryable(e)
                 THEN "transient" ELSE "mixed"
            /\ IF handled.do = "throw"
               THEN /\ outcome' = <<[kind |-> "thrown", value |-> handled.value]>>
                    /\ rpc' = "thrown"
                    /\ UNCHANGED waited
               ELSE /\ waited' = Append(waited, delay)
                    /\ rpc' = "wait"
                    /\ UNCHANGED outcome
    /\ UNCHANGED <<pipeVars, callVars, appVars, xrefVars, locateVars, parseVars, retries, delay, retryArgs>>

\* The timer firing: return retryOperation(operation, retries - 1, delay * 2).
TimerFires ==
    /\ rpc = "wait"
    /\ retries' = nextRetries(retries)
    /\ delay' = nextDelay(delay)
    /\ caught' = <<>>
    /\ rpc' = "call"
    /\ UNCHANGED <<pipeVars, callVars, appVars, xrefVars, locateVars, parseVars, retryArgs, invocations, waited,
                   failedSoFar, outcome>>

NextRetry == OperationResolves \/ OperationRejects \/ TimerFires

SpecRetry == InitRetry /\ [][NextRetry]_vars

\* The same under the scheduling the claims on termination take for granted:
\* a pending call of the operation settles and a pending timer fires.
SpecRetryFair == SpecRetry /\ WF_vars(NextRetry)

----------------------------------------------------------------------------
(* analyzeMapData: the post-processing of the parsed places against the   *)
(* grounding chunks of the response                                        *)

GOOGLE == <<"g", "o", "o", "g", "l", "e">>

\* encodeURIComponent on one character of the alphabet in use: letters,
\* digits and - _ . ! ~ * ' ( ) are kept, anything else is percent-encoded.
encodeURIChar(c) ==
    CASE c = " " -> <<"%", "2", "0">>
      [] c = "\t" -> <<"%", "0", "9">>
      [] c = "/" -> <<"%", "2", "F">>
      [] c = "%" -> <<"%", "2", "5">>
      [] OTHER -> <<c>>

RECURSIVE encodeURIComponent(_)
encodeURIComponent(s) ==
    IF s = <<>> THEN <<>>
    ELSE encodeURIChar(Head(s)) \o encodeURIComponent(Tail(s))

\* A grounding chunk: { web?: { title?, uri? }, maps?: { title?, uri? } },
\* an absent field being the empty string (the code tests truthiness only).
Chunk(webTitle, webUri, mapsTitle, mapsUri) ==
    [webTitle |-> webTitle, webUri |-> webUri,
     mapsTitle |-> mapsTitle, mapsUri |-> mapsUri]

\* c.web?.title || chunkAny.maps?.title || ""
chunkTitle(c) == IF c.webTitle # <<>> THEN c.webTitle ELSE c.mapsTitle

\* c.web?.uri || chunkAny.maps?.uri || ""
chunkUrl(c) == IF c.webUri # <<>> THEN c.webUri ELSE c.mapsUri

\* The predicate handed to groundingChunks.find.
chunkMatches(c, p) ==
    LET title == chunkTitle(c)
        url == chunkUrl(c)
    IN /\ title # <<>>
       /\ \/ includes(title, p.name)
          \/ url # <<>> /\ includes(url, encodeURIComponent(p.name))

\* groundingChunks.find(...): the index of the first chunk that matches, 0
\* when none does.
find(chunks, p) ==
    IF \E i \in DOMAIN chunks : chunkMatches(chunks[i], p)
    THEN CHOOSE i \in DOMAIN chunks :
            /\ chunkMatches(chunks[i], p)
            /\ \A j \in 1..(i - 1) : ~chunkMatches(chunks[j], p)
    ELSE 0

\* The uri and isVerified lines 279-296 leave: the chunk's uri and true when
\* a chunk matches and carries a uri, else the proposed uri and false.
crossReference(p, grounding) ==
    LET proposed == [uri |-> p.googleMapsUri, isVerified |-> FALSE]
    IN IF grounding = {} THEN proposed
       ELSE LET chunks == CHOOSE x \in grounding : TRUE
                i == find(chunks, p)
            IN IF i = 0 THEN proposed
               ELSE IF chunks[i].webUri # <<>>
                    THEN [uri |-> chunks[i].webUri, isVerified |-> TRUE]
               ELSE IF chunks[i].mapsUri # <<>>
                    THEN [uri |-> chunks[i].mapsUri, isVerified |-> TRUE]
               ELSE proposed

\* A faulty variant of cleanupUri: a uri of another domain is kept.
cleanupUri_KeepsOtherDomains(uri) ==
    IF uri # <<>> /\ includes(uri, SEARCH) THEN <<>> ELSE uri

\* if (uri && (uri.includes('search') || !uri.includes('google'))) uri = undefined
cleanupUri(uri) ==
    IF uri # <<>> /\ (includes(uri, SEARCH) \/ ~includes(uri, GOOGLE))
    THEN <<>> ELSE uri

\* `place-${idx}-${Date.now()}`
placeId(idx, now) ==
    CASE idx = 0 /\ now = 1700 -> "place-0-1700"
      [] idx = 0 /\ now = 1701 -> "place-0-1701"
      [] idx = 1 /\ now = 1700 -> "place-1-1700"
      [] idx = 1 /\ now = 1701 -> "place-1-1701"
      [] idx = 2 /\ now = 1700 -> "place-2-1700"
      [] idx = 2 /\ now = 1701 -> "place-2-1701"
      [] idx = 3 /\ now = 1700 -> "place-3-1700"
      [] idx = 3 /\ now = 1701 -> "place-3-1701"

\* The callback of parsed.places.map for the record at index idx (from 0).
postProcess(p, idx, grounding, now) ==
    LET x == crossReference(p, grounding)
    IN [p EXCEPT !.id = IF p.id # "" THEN p.id ELSE placeId(idx, now),
                 !.googleMapsUri = cleanupUri(x.uri),
                 !.isVerified = x.isVerified]

\* The values Date.now() can return during one map: it never goes back.
Clock == {1700, 1701}
Clocks(n) ==
    { f \in [1..n -> Clock] : \A i \in 1..n : \A j \in i..n : f[i] <= f[j] }

\* What the model can return for a place, and the chunks that can come with
\* the response.
NameIchi == <<"A">>                          \* a part of NameIchiran
UriYelp == <<"y", "/", "1">>

Candidate(id, name, uri) ==
    Place(id, name, LocKyoto, uri, FALSE, NoCoords, <<>>, <<>>, <<"x">>)

Candidates ==
    { Candidate("", NameIchiran, <<>>),
      Candidate("", NameIchiran, UriA),
      Candidate("p1", NameIchiran, UriYelp),
      Candidate("", NameIchiran, UriSearch),
      Candidate("", NameIchi, <<>>),
      Candidate("", <<>>, <<>>),
      Candidate("", NameIchiranSpaced, <<>>) }

Chunks ==
    { Chunk(NameIchiran, UriB, <<>>, <<>>),
      Chunk(NameIchiran, <<>>, <<>>, <<>>),
      Chunk(<<>>, GOOGLE \o <<"/">> \o encodeURIComponent(NameIchiran), <<>>, <<>>),
      Chunk(<<>>, <<>>, NameIchiran \o <<" ", "T">>, UriB),
      Chunk(NameIchiran, <<"y", "/">> \o NameIchiran, <<>>, <<>>),
      Chunk(<<"T">>, GOOGLE \o <<"/">> \o encodeURIComponent(NameIchiranSpaced), <<>>, <<>>),
      Chunk(NameIchiran, UriSearch, <<>>, <<>>) }

InitXref ==
    /\ pc = "parsed"
    /\ parsed \in SeqsUpTo(Candidates, MaxParsed)
    /\ groundingChunks \in {{}} \cup { {cs} : cs \in SeqsUpTo(Chunks, MaxChunks) }
    /\ places = <<>>
    /\ deduped = <<>>
    /\ kml = <<>>
    /\ markers = <<>>
    /\ result = {}
    /\ selectedPlaceId = ""
    /\ isLoading = FALSE
    /\ error = ""
    /\ pendingAnalyze = 0
    /\ pendingAppend = 0
    /\ retryIdle
    /\ locateIdle
    /\ parseIdle

\* parsed.places = parsed.places.map(...), then
\* parsed.places = deduplicatePlaces(parsed.places): places holds the
\* records between the two, deduped what analyzeMapData returns.
PostProcess ==
    /\ pc = "parsed"
    /\ \E nows \in Clocks(Len(parsed)) :
         LET mapped == [i \in DOMAIN parsed |->
                          postProcess(parsed[i], i - 1, groundingChunks, nows[i])]
         IN /\ places' = mapped
            /\ deduped' = deduplicatePlaces(mapped)
    /\ pc' = "reconciled"
    /\ UNCHANGED <<kml, markers, appVars, xrefVars, locateVars, parseVars, retryVars>>

NextXref == PostProcess

SpecXref == InitXref /\ [][NextXref]_vars

----------------------------------------------------------------------------
(* parseLocation (App), and deduplicatePlaces on records as JSON.parse can  *)
(* leave them.  A character of the source outside ASCII is written as its   *)
(* code point: "u5E02" is the one character U+5E02.                         *)

\* /^(...)\s*/: the country names the regular expression lists.
CountryPrefixes ==
    { <<"u53F0", "u7063">>, <<"u81FA", "u7063">>, <<"u65E5", "u672C">>,
      <<"u5357", "u97D3">>, <<"u97D3", "u570B">>, <<"u6CF0", "u570B">>,
      <<"u8D8A", "u5357">> }

\* The character class at the end of the first group of cityMatch.
AdminSuffixes == {"u5E02", "u7E23", "u90FD", "u5E9C"}

\* { city: U+672A U+5206 U+985E U+5730 U+5340, district: U+5176 U+4ED6 }
Unclassified ==
    [city |-> <<"u672A", "u5206", "u985E", "u5730", "u5340">>,
     district |-> <<"u5176", "u4ED6">>]

\* The district of a label that is a city alone: U+5E02 U+5340.
CityOnlyDistrict == <<"u5E02", "u5340">>

RECURSIVE trimStart(_)
trimStart(s) ==
    IF s # <<>> /\ IsSpace(Head(s)) THEN trimStart(Tail(s)) ELSE s

RECURSIVE trimEnd(_)
trimEnd(s) ==
    IF s # <<>> /\ IsSpace(s[Len(s)]) THEN trimEnd(SubSeq(s, 1, Len(s) - 1)) ELSE s

\* s.trim()
trim(s) == trimEnd(trimStart(s))

\* loc.replace(/^(...)\s*/, ''): a country name at the very start goes,
\* with the white space that follows it.
stripCountry(s) ==
    IF Len(s) >= 2 /\ SubSeq(s, 1, 2) \in CountryPrefixes
    THEN trimStart(SubSeq(s, 3, Len(s)))
    ELSE s

\* s.split(/\s+/): the pieces between the maximal runs of white space.
RECURSIVE split(_)
split(s) ==
    IF \A i \in DOMAIN s : ~IsSpace(s[i]) THEN <<s>>
    ELSE LET i == CHOOSE k \in DOMAIN s :
                    IsSpace(s[k]) /\ \A j \in 1..(k - 1) : ~IsSpace(s[j])
         IN <<SubSeq(s, 1, i - 1)>> \o split(trimStart(SubSeq(s, i, Len(s))))

\* A faulty variant of join: the pieces are concatenated with nothing between.
RECURSIVE join_NoSeparator(_, _)
join_NoSeparator(parts, sep) ==
    IF parts = <<>> THEN <<>>
    ELSE Head(parts) \o join_NoSeparator(Tail(parts), sep)

\* parts.join(sep)
RECURSIVE join(_, _)
join(parts, sep) ==
    IF parts = <<>> THEN <<>>
    ELSE IF Len(parts) = 1 THEN Head(parts)
    ELSE Head(parts) \o sep \o join(Tail(parts), sep)

\* cleaned.match(/^(.{2,}[...])(.+)$/) on a string without white space: {}
\* for null, else the two groups.  The first group is greedy: it ends at the
\* last suffix character that has two characters before it and one after.
cityMatch(s) ==
    LET ends == { i \in 3..(Len(s) - 1) : s[i] \in AdminSuffixes }
    IN IF ends = {} THEN {}
       ELSE LET i == CHOOSE k \in ends : \A j \in ends : j <= k
            IN {[city |-> SubSeq(s, 1, i), district |-> SubSeq(s, i + 1, Len(s))]}

parseLocation(loc) ==
    IF ~truthy(loc) THEN Unclassified
    ELSE LET cleaned == trim(stripCountry(loc.v))
             parts == split(cleaned)
         IN IF cleaned = <<>> THEN Unclassified
            ELSE IF Len(parts) >= 2
                 THEN [city |-> parts[1], district |-> join(Tail(parts), <<" ">>)]
            ELSE IF cityMatch(cleaned) # {}
                 THEN CHOOSE m \in cityMatch(cleaned) : TRUE
            ELSE [city |-> cleaned, district |-> CityOnlyDistrict]

\* A record JSON.parse left without a name: p.name is undefined.
Nameless(id, loc, uri, desc) ==
    [id |-> id, locationGuess |-> loc, googleMapsUri |-> uri,
     isVerified |-> FALSE, coordinates |-> NoCoords, address |-> <<>>,
     imageUri |-> <<>>, description |-> desc]

\* What p.name.toLowerCase() throws when p.name is undefined.
TypeErrorMessage ==
    <<"C", "a", "n", "n", "o", "t", " ", "r", "e", "a", "d", " ", "p", "r",
      "o", "p", "e", "r", "t", "i", "e", "s", " ", "o", "f", " ", "u", "n",
      "d", "e", "f", "i", "n", "e", "d", " ", "(", "r", "e", "a", "d", "i",
      "n", "g", " ", "'", "t", "o", "L", "o", "w", "e", "r", "C", "a", "s",
      "e", "'", ")">>

\* The callback of places.forEach throws at p: the key is to be made of the
\* name, and there is none.
throwsAt(p) ==
    /\ ~(p.googleMapsUri # <<>> /\ ~includes(p.googleMapsUri, SEARCH))
    /\ "name" \notin DOMAIN p

\* A call of deduplicatePlaces, on records of which some can lack a name:
\* what it returns, or what the first callback that throws throws.
callDeduplicatePlaces(ps) ==
    IF \E i \in DOMAIN ps : throwsAt(ps[i])
    THEN [kind |-> "thrown", value |-> TypeErrorMessage]
    ELSE [kind |-> "returned", value |-> deduplicatePlaces(ps)]

\* Longest label body that is explored.
MaxLabel == 5

LabelAlphabet == {"K", " ", "u5E02"}

\* The labels explored: every short string over the alphabet, alone, after
\* a country name and after a space and a country name; the country names
\* alone; longer labels with two suffix characters and with the other
\* suffixes; the empty and the absent label.
Labels ==
    LET bodies == SeqsUpTo(LabelAlphabet, MaxLabel)
        starts == { <<>>, <<"u65E5", "u672C">>, <<" ", "u65E5", "u672C">> }
    IN { String(a \o b) : a \in starts, b \in bodies }
       \cup { String(c) : c \in CountryPrefixes }
       \cup { String(<<"K", "K", "u5E9C", "K", "K", "u5E02", "K">>),
              String(<<"K", "K", "u7E23", "K">>),
              String(<<"K", "K", "u90FD", "K">>),
              String(<<"u53F0", "u7063", "\t", "K", "\t", " ", "K", " ", "K">>),
              undefined }

\* The arguments of deduplicatePlaces explored next to the labels: records
\* with every field, and records of a response that left fields out.
LooseInputs ==
    LET full == Shapes("p1")[1]
        emptyFields == Place("p9", <<>>, <<>>, <<>>, FALSE, NoCoords, <<>>, <<>>, <<>>)
        noName == Nameless("p9", LocKyoto, <<>>, <<"x">>)
        noNameUri == Nameless("p9", <<>>, UriA, <<>>)
    IN { <<>>, <<full>>, <<emptyFields>>, <<full, emptyFields>>,
         <<noNameUri>>, <<noName>>, <<full, noName>> }

InitLocate ==
    /\ pc = "input"
    /\ label \in Labels
    /\ location = <<>>
    /\ places \in LooseInputs
    /\ raised = <<>>
    /\ deduped = <<>>
    /\ kml = <<>>
    /\ markers = <<>>
    /\ result = {}
    /\ selectedPlaceId = ""
    /\ isLoading = FALSE
    /\ error = ""
    /\ pendingAnalyze = 0
    /\ pendingAppend = 0
    /\ retryIdle
    /\ xrefIdle
    /\ parseIdle

\* parseLocation(label) is called and returns.
ParseLocation ==
    /\ location = <<>>
    /\ location' = <<parseLocation(label)>>
    /\ UNCHANGED <<pipeVars, callVars, appVars, retryVars, xrefVars, parseVars,
                   label, raised>>

\* deduplicatePlaces(places) is called and returns.
DeduplicateReturns ==
    /\ pc = "input"
    /\ callDeduplicatePlaces(places).kind = "returned"
    /\ deduped' = callDeduplicatePlaces(places).value
    /\ pc' = "deduped"
    /\ UNCHANGED <<places, kml, markers, appVars, retryVars, xrefVars, parseVars,
                   locateVars>>

\* deduplicatePlaces(places) is called and throws.
DeduplicateThrows ==
    /\ pc = "input"
    /\ callDeduplicatePlaces(places).kind = "thrown"
    /\ raised' = <<callDeduplicatePlaces(places).value>>
    /\ pc' = "threw"
    /\ UNCHANGED <<callVars, kml, markers, appVars, retryVars, xrefVars, parseVars,
                   label, location>>

NextLocate == ParseLocation \/ DeduplicateReturns \/ DeduplicateThrows

SpecLocate == InitLocate /\ [][NextLocate]_vars

----------------------------------------------------------------------------
(* cleanAndParseJSON, and analyzeMapData from response.text on.  A JSON     *)
(* value is [t |-> "string", v |-> its characters], [t |-> "array",        *)
(* v |-> its elements] or [t |-> "object", v |-> its members in order], a   *)
(* member being [key |-> characters, value |-> a JSON value].  No text      *)
(* explored holds a number, true, false, null or a backslash.               *)

QUOTE == "\""

\* The code fence: three characters U+0060.
FENCE == <<"u0060", "u0060", "u0060">>

JSONTAG ==
    <<"j", "s", "o", "n">>

WordJSON ==
    <<"J", "S", "O", "N">>

WordMalformed ==
    <<"m", "a", "l", "f", "o", "r", "m", "e", "d">>

WordApiKey ==
    <<"A", "P", "I", " ", "k", "e", "y">>

WordUnsupported ==
    <<"u", "n", "s", "u", "p", "p", "o", "r", "t", "e", "d">>
KeySummary ==
    <<"s", "u", "m", "m", "a", "r", "y">>

KeyPlaces ==
    <<"p", "l", "a", "c", "e", "s">>

KeyName ==
    <<"n", "a", "m", "e">>

KeyDescription ==
    <<"d", "e", "s", "c", "r", "i", "p", "t", "i", "o", "n">>

KeyLocationGuess ==
    <<"l", "o", "c", "a", "t", "i", "o", "n", "G", "u", "e", "s", "s">>

KeyGoogleMapsUri ==
    <<"g", "o", "o", "g", "l", "e", "M", "a", "p", "s", "U", "r", "i">>

KeyId ==
    <<"i", "d">>
PlaceholderSummary ==
    <<"A", "I", " ", "G", "e", "n", "e", "r", "a", "t", "e", "d", " ", "S",
      "u", "m", "m", "a", "r", "y">>

NoObjectMessage ==
    <<"N", "o", " ", "J", "S", "O", "N", " ", "o", "b", "j", "e", "c", "t",
      " ", "f", "o", "u", "n", "d", " ", "i", "n", " ", "r", "e", "s", "p",
      "o", "n", "s", "e", ".">>

MalformedMessage ==
    <<"J", "S", "O", "N", " ", "s", "t", "r", "u", "c", "t", "u", "r", "e",
      " ", "i", "s", " ", "m", "a", "l", "f", "o", "r", "m", "e", "d", ".">>

NoContentMessage ==
    <<"N", "o", " ", "r", "e", "s", "p", "o", "n", "s", "e", " ", "c", "o",
      "n", "t", "e", "n", "t", " ", "g", "e", "n", "e", "r", "a", "t", "e",
      "d", " ", "(", "p", "o", "s", "s", "i", "b", "l", "y", " ", "f", "i",
      "l", "t", "e", "r", "e", "d", ")", ".">>

ApiKeyMessage ==
    <<"A", "P", "I", " ", "K", "e", "y", " ", "u7121", "u6548", "u6216",
      "u984D", "u5EA6", "u5DF2", "u6EFF", "uFF0C", "u8ACB", "u6AA2",
      "u67E5", "u8A2D", "u5B9A", "u3002">>

UnsupportedMessage ==
    <<"u7CFB", "u7D71", "u914D", "u7F6E", "u932F", "u8AA4", " ", "(", "T",
      "o", "o", "l", "/", "M", "i", "m", "e", "T", "y", "p", "e", " ", "C",
      "o", "n", "f", "l", "i", "c", "t", ")", "u3002">>

FormatMessage ==
    <<"A", "I", " ", "u56DE", "u50B3", "u8CC7", "u6599", "u683C", "u5F0F",
      "u6709", "u8AA4", "uFF0C", "u8ACB", "u518D", "u8A66", "u4E00",
      "u6B21", "u3002">>

UnknownMessage ==
    <<"u767C", "u751F", "u672A", "u77E5", "u932F", "u8AA4">>
JArray(elements) == [t |-> "array", v |-> elements]
JObject(members) == [t |-> "object", v |-> members]
Member(key, value) == [key |-> key, value |-> value]

startsWith(s, pre) == Len(s) >= Len(pre) /\ SubSeq(s, 1, Len(pre)) = pre
endsWith(s, post) ==
    Len(s) >= Len(post) /\ SubSeq(s, Len(s) - Len(post) + 1, Len(s)) = post

\* s.indexOf(c), from 0, -1 when c is not in s.
indexOf(s, c) ==
    IF \E i \in DOMAIN s : s[i] = c
    THEN (CHOOSE i \in DOMAIN s : s[i] = c /\ \A j \in 1..(i - 1) : s[j] # c) - 1
    ELSE -1

\* s.lastIndexOf(c)
lastIndexOf(s, c) ==
    IF \E i \in DOMAIN s : s[i] = c
    THEN (CHOOSE i \in DOMAIN s : s[i] = c /\ \A j \in (i + 1)..Len(s) : s[j] # c) - 1
    ELSE -1

\* s.substring(start, end) for indices within s: the two are swapped when
\* start is the larger.
substring(s, start, end) ==
    IF start <= end THEN SubSeq(s, start + 1, end) ELSE SubSeq(s, end + 1, start)

\* The first replace of cleanAndParseJSON: every fence goes, with the word json
\* in any case when it follows at once, wherever the fence stands.
RECURSIVE removeFenceTags(_)
removeFenceTags(s) ==
    IF s = <<>> THEN <<>>
    ELSE IF startsWith(s, FENCE)
    THEN LET after == SubSeq(s, 4, Len(s))
         IN IF Len(after) >= 4 /\ toLowerCase(SubSeq(after, 1, 4)) = JSONTAG
            THEN removeFenceTags(SubSeq(after, 5, Len(after)))
            ELSE removeFenceTags(after)
    ELSE <<Head(s)>> \o removeFenceTags(Tail(s))

\* The second replace: every fence that is left goes.
RECURSIVE removeFences(_)
removeFences(s) ==
    IF s = <<>> THEN <<>>
    ELSE IF startsWith(s, FENCE) THEN removeFences(SubSeq(s, 4, Len(s)))
    ELSE <<Head(s)>> \o removeFences(Tail(s))

\* The repair of jsonCandidate: a comma goes when a closing
\* brace or bracket follows it, white space apart.
RECURSIVE removeTrailingCommas(_)
removeTrailingCommas(s) ==
    IF s = <<>> THEN <<>>
    ELSE IF /\ Head(s) = ","
            /\ trimStart(Tail(s)) # <<>>
            /\ Head(trimStart(Tail(s))) \in {"}", "]"}
    THEN removeTrailingCommas(Tail(s))
    ELSE <<Head(s)>> \o removeTrailingCommas(Tail(s))

\* The white space of the JSON grammar.
IsJsonSpace(c) == c \in {" ", "\t", "\n", "\r"}

RECURSIVE skipSpace(_)
skipSpace(s) ==
    IF s # <<>> /\ IsJsonSpace(Head(s)) THEN skipSpace(Tail(s)) ELSE s

\* What a step of JSON.parse gives: the value read and the text after it.
Read(val, rest) == [ok |-> TRUE, val |-> val, rest |-> rest]
SyntaxError == [ok |-> FALSE, val |-> <<>>, rest |-> <<>>]

\* A string: a quote, characters that are neither a quote nor a control
\* character, a quote.
parseString(s) ==
    IF s = <<>> \/ Head(s) # QUOTE THEN SyntaxError
    ELSE IF \A j \in 2..Len(s) : s[j] # QUOTE THEN SyntaxError
    ELSE LET j == CHOOSE k \in 2..Len(s) :
                    s[k] = QUOTE /\ \A i \in 2..(k - 1) : s[i] # QUOTE
             content == SubSeq(s, 2, j - 1)
         IN IF \E i \in DOMAIN content : content[i] \in {"\t", "\n", "\r"}
            THEN SyntaxError
            ELSE Read(String(content), SubSeq(s, j + 1, Len(s)))

RECURSIVE parseValue(_)
RECURSIVE parseElements(_, _)
RECURSIVE parseMembers(_, _)

\* The elements of an array after its bracket or a comma; acc holds the
\* elements read so far.
parseElements(s, acc) ==
    LET v == parseValue(s)
        t == skipSpace(v.rest)
    IN IF ~v.ok \/ t = <<>> THEN SyntaxError
       ELSE IF Head(t) = "," THEN parseElements(Tail(t), Append(acc, v.val))
       ELSE IF Head(t) = "]" THEN Read(JArray(Append(acc, v.val)), Tail(t))
       ELSE SyntaxError

\* The members of an object after its brace or a comma.
parseMembers(s, acc) ==
    LET k == parseString(skipSpace(s))
        u == skipSpace(k.rest)
    IN IF ~k.ok \/ u = <<>> \/ Head(u) # ":" THEN SyntaxError
       ELSE LET v == parseValue(Tail(u))
                t == skipSpace(v.rest)
                members == Append(acc, Member(k.val.v, v.val))
            IN IF ~v.ok \/ t = <<>> THEN SyntaxError
               ELSE IF Head(t) = "," THEN parseMembers(Tail(t), members)
               ELSE IF Head(t) = "}" THEN Read(JObject(members), Tail(t))
               ELSE SyntaxError

parseValue(s0) ==
    LET s == skipSpace(s0)
    IN IF s = <<>> THEN SyntaxError
       ELSE IF Head(s) = QUOTE THEN parseString(s)
       ELSE IF Head(s) = "["
       THEN LET t == skipSpace(Tail(s))
            IN IF t # <<>> /\ Head(t) = "]" THEN Read(JArray(<<>>), Tail(t))
               ELSE parseElements(t, <<>>)
       ELSE IF Head(s) = "{"
       THEN LET t == skipSpace(Tail(s))
            IN IF t # <<>> /\ Head(t) = "}" THEN Read(JObject(<<>>), Tail(t))
               ELSE parseMembers(t, <<>>)
       ELSE SyntaxError

\* JSON.parse(s): the value of the one JSON text s is, or a SyntaxError.
JSONparse(s) ==
    LET r == parseValue(s)
    IN IF r.ok /\ skipSpace(r.rest) = <<>>
       THEN [kind |-> "returned", value |-> r.val]
       ELSE [kind |-> "thrown", value |-> <<"S", "y", "n", "t", "a", "x", "E", "r", "r", "o", "r">>]

cleanAndParseJSON(t) ==
    LET cleanText == removeFences(removeFenceTags(t))
        firstBrace == indexOf(cleanText, "{")
        lastBrace == lastIndexOf(cleanText, "}")
    IN IF firstBrace = -1 \/ lastBrace = -1
       THEN IF /\ startsWith(trim(cleanText), <<"[">>)
               /\ endsWith(trim(cleanText), <<"]">>)
               /\ JSONparse(cleanText).kind = "returned"
            THEN [kind |-> "returned",
                  value |-> JObject(<<Member(KeySummary, String(PlaceholderSummary)),
                                      Member(KeyPlaces, JSONparse(cleanText).value)>>)]
            ELSE [kind |-> "thrown", value |-> NoObjectMessage]
       ELSE LET jsonCandidate == substring(cleanText, firstBrace, lastBrace + 1)
                fixedJson == removeTrailingCommas(jsonCandidate)
            IN IF JSONparse(jsonCandidate).kind = "returned"
               THEN JSONparse(jsonCandidate)
               ELSE IF JSONparse(fixedJson).kind = "returned"
               THEN JSONparse(fixedJson)
               ELSE [kind |-> "thrown", value |-> MalformedMessage]

\* obj[key]: {} for undefined, else the value of the last member of that key.
get(obj, key) ==
    IF obj.t = "object" /\ \E i \in DOMAIN obj.v : obj.v[i].key = key
    THEN LET i == CHOOSE k \in DOMAIN obj.v :
                    obj.v[k].key = key /\ \A j \in (k + 1)..Len(obj.v) : obj.v[j].key # key
         IN {obj.v[i].value}
    ELSE {}

\* The characters of obj[key] when it is a string, <<>> when it is absent.
stringField(obj, key) ==
    IF \E x \in get(obj, key) : x.t = "string"
    THEN (CHOOSE x \in get(obj, key) : TRUE).v
    ELSE <<>>

\* An element of parsed.places as the map callback and deduplicatePlaces
\* read it.  No text explored gives an element an id, coordinates, an
\* address or an image.
toPlace(p) ==
    IF \E x \in get(p, KeyName) : x.t = "string"
    THEN Place("", stringField(p, KeyName), stringField(p, KeyLocationGuess),
               stringField(p, KeyGoogleMapsUri), FALSE, NoCoords, <<>>, <<>>,
               stringField(p, KeyDescription))
    ELSE Nameless("", stringField(p, KeyLocationGuess),
                  stringField(p, KeyGoogleMapsUri), stringField(p, KeyDescription))

\* The message of the Error the catch block of analyzeMapData throws for a
\* caught Error of message m that has no status.
analysisError(m) ==
    IF includes(m, WordApiKey) THEN ApiKeyMessage
    ELSE IF includes(m, WordUnsupported) THEN UnsupportedMessage
    ELSE IF includes(m, WordJSON) \/ includes(m, WordMalformed) THEN FormatMessage
    ELSE IF m # <<>> THEN m
    ELSE UnknownMessage

\* parsed.places when it is an array, <<>> otherwise.
placesArray(parsedValue) ==
    IF \E x \in get(parsedValue, KeyPlaces) : x.t = "array"
    THEN (CHOOSE x \in get(parsedValue, KeyPlaces) : TRUE).v
    ELSE <<>>

\* analyzeMapData from the test of response.text on, for a response without
\* grounding chunks; nows[i] is what Date.now() returns for element i.
analyzeResponse(t, nows) ==
    IF t = <<>> THEN [kind |-> "thrown", value |-> analysisError(NoContentMessage)]
    ELSE LET r == cleanAndParseJSON(t)
         IN IF r.kind = "thrown"
            THEN [kind |-> "thrown", value |-> analysisError(r.value)]
            ELSE LET items == placesArray(r.value)
                     mapped == [i \in DOMAIN items |->
                                  postProcess(toPlace(items[i]), i - 1, {}, nows[i])]
                     d == callDeduplicatePlaces(mapped)
                 IN IF d.kind = "thrown"
                    THEN [kind |-> "thrown", value |-> analysisError(d.value)]
                    ELSE [kind |-> "returned",
                          value |-> [summary |-> get(r.value, KeySummary),
                                     places |-> d.value]]

\* {"summary":"s","places":[{"name":"A"},{"name":"C"}]}  (a summary and two places)
TextObject ==
    <<"{", "\"", "s", "u", "m", "m", "a", "r", "y", "\"", ":", "\"", "s",
      "\"", ",", "\"", "p", "l", "a", "c", "e", "s", "\"", ":", "[", "{",
      "\"", "n", "a", "m", "e", "\"", ":", "\"", "A", "\"", "}", ",", "{",
      "\"", "n", "a", "m", "e", "\"", ":", "\"", "C", "\"", "}", "]", "}">>

\* {"summary":"s","places":[{"name":"A","description":"x(fence)y"}]}  (a description that holds a code-fence marker)
TextFenceInside ==
    <<"{", "\"", "s", "u", "m", "m", "a", "r", "y", "\"", ":", "\"", "s",
      "\"", ",", "\"", "p", "l", "a", "c", "e", "s", "\"", ":", "[", "{",
      "\"", "n", "a", "m", "e", "\"", ":", "\"", "A", "\"", ",", "\"", "d",
      "e", "s", "c", "r", "i", "p", "t", "i", "o", "n", "\"", ":", "\"",
      "x", "u0060", "u0060", "u0060", "y", "\"", "}", "]", "}">>

\* {"summary":"s","places":[{"name":"A"},]}  (a comma before the closing bracket)
TextTrailingComma ==
    <<"{", "\"", "s", "u", "m", "m", "a", "r", "y", "\"", ":", "\"", "s",
      "\"", ",", "\"", "p", "l", "a", "c", "e", "s", "\"", ":", "[", "{",
      "\"", "n", "a", "m", "e", "\"", ":", "\"", "A", "\"", "}", ",", "]",
      "}">>

\* [{"name":"A"}]  (a bare array of one place)
TextArrayOfOne ==
    <<"[", "{", "\"", "n", "a", "m", "e", "\"", ":", "\"", "A", "\"", "}",
      "]">>

\* [{"name":"A"}, {"name":"C"}]  (a bare array of two places)
TextArrayOfTwo ==
    <<"[", "{", "\"", "n", "a", "m", "e", "\"", ":", "\"", "A", "\"", "}",
      ",", " ", "{", "\"", "n", "a", "m", "e", "\"", ":", "\"", "C", "\"",
      "}", "]">>

\* ["A"]  (a bare array without a brace)
TextArrayOfStrings ==
    <<"[", "\"", "A", "\"", "]">>

\* []  (the empty array)
TextEmptyArray ==
    <<"[", "]">>

\* ["A",]  (a bare array with a comma before the bracket)
TextArrayTrailingComma ==
    <<"[", "\"", "A", "\"", ",", "]">>

\* {"summary":"s"}  (an object without places)
TextNoPlaces ==
    <<"{", "\"", "s", "u", "m", "m", "a", "r", "y", "\"", ":", "\"", "s",
      "\"", "}">>

\* {"summary":"s","places":"A"}  (places that is not an array)
TextPlacesNotArray ==
    <<"{", "\"", "s", "u", "m", "m", "a", "r", "y", "\"", ":", "\"", "s",
      "\"", ",", "\"", "p", "l", "a", "c", "e", "s", "\"", ":", "\"", "A",
      "\"", "}">>

\* {"summary":"s","places":[]}  (a summary and no place)
TextEmptyPlaces ==
    <<"{", "\"", "s", "u", "m", "m", "a", "r", "y", "\"", ":", "\"", "s",
      "\"", ",", "\"", "p", "l", "a", "c", "e", "s", "\"", ":", "[", "]",
      "}">>

\* {"summary":"s","places":[{"description":"x"}]}  (a place without a name)
TextNamelessPlace ==
    <<"{", "\"", "s", "u", "m", "m", "a", "r", "y", "\"", ":", "\"", "s",
      "\"", ",", "\"", "p", "l", "a", "c", "e", "s", "\"", ":", "[", "{",
      "\"", "d", "e", "s", "c", "r", "i", "p", "t", "i", "o", "n", "\"",
      ":", "\"", "x", "\"", "}", "]", "}">>

\* {"summary":"s"  (an object that is not closed)
TextUnclosed ==
    <<"{", "\"", "s", "u", "m", "m", "a", "r", "y", "\"", ":", "\"", "s",
      "\"">>

\* {"summary" "s"}  (an object without its colon)
TextBroken ==
    <<"{", "\"", "s", "u", "m", "m", "a", "r", "y", "\"", " ", "\"", "s",
      "\"", "}">>

\* } {  (a closing brace before an opening one)
TextReversed ==
    <<"}", " ", "{">>

\* sorry  (no JSON at all)
TextProse ==
    <<"s", "o", "r", "r", "y">>

\* (no text)
TextNone ==
    <<>>
Bodies ==
    { TextObject, TextFenceInside, TextTrailingComma, TextArrayOfOne,
      TextArrayOfTwo, TextArrayOfStrings, TextEmptyArray,
      TextArrayTrailingComma, TextNoPlaces, TextPlacesNotArray,
      TextEmptyPlaces, TextNamelessPlace, TextUnclosed, TextBroken,
      TextReversed, TextProse, TextNone }

\* What the model puts before and after the JSON: nothing, a code fence,
\* a sentence.
Openings ==
    { <<>>, FENCE \o JSONTAG \o <<"\n">>, FENCE \o <<"J", "s", "o", "n", " ">>,
      <<"o", "k", ":", " ">> }
Closings == { <<>>, <<"\n">> \o FENCE, <<" ", "o", "k">> }

Texts == { a \o b \o c : a \in Openings, b \in Bodies, c \in Closings }

InitParse ==
    /\ pc = "response"
    /\ text \in Texts
    /\ parsedJson = <<>>
    /\ analysis = <<>>
    /\ places = <<>>
    /\ deduped = <<>>
    /\ kml = <<>>
    /\ markers = <<>>
    /\ result = {}
    /\ selectedPlaceId = ""
    /\ isLoading = FALSE
    /\ error = ""
    /\ pendingAnalyze = 0
    /\ pendingAppend = 0
    /\ retryIdle
    /\ xrefIdle
    /\ locateIdle

\* analyzeMapData, once retryOperation has returned the response, up to
\* its return or its throw.
AnalyzeResponse ==
    /\ pc = "response"
    /\ parsedJson' = IF text = <<>> THEN <<>> ELSE <<cleanAndParseJSON(text)>>
    /\ \E nows \in Clocks(IF text = <<>> \/ cleanAndParseJSON(text).kind = "thrown"
                          THEN 0
                          ELSE Len(placesArray(cleanAndParseJSON(text).value))) :
          analysis' = <<analyzeResponse(text, nows)>>
    /\ pc' = "analyzed"
    /\ UNCHANGED <<kml, markers, callVars, appVars, retryVars, xrefVars, locateVars, text>>

NextParse == AnalyzeResponse

SpecParse == InitParse /\ [][NextParse]_vars

----------------------------------------------------------------------------
(* Properties of deduplicatePlaces, checked under SpecDedup *)

Range(f) == { f[i] : i \in DOMAIN f }

\* The argument is two records of one key.
SameKeyPair == Len(places) = 2 /\ keyOf(places[1]) = keyOf(places[2])

\* The completeness score as the specification words it, in half points:
\* +2 coordinates, +1 address, +1 image, +0.5 for the strictly longer
\* description.
Completeness(r) ==
      (IF r.coordinates # {} THEN 4 ELSE 0)
    + (IF r.address # <<>> THEN 2 ELSE 0)
    + (IF r.imageUri # <<>> THEN 2 ELSE 0)

StatedScore(r, other) ==
    Completeness(r) + (IF Len(r.description) > Len(other.description) THEN 1 ELSE 0)

\* C1: an unverified record followed by a verified record of the same key
\* gives exactly one record: the later one's fields under the earlier one's id.
C1_VerifiedDuplicateKeepsOldId ==
    (pc = "deduped" /\ SameKeyPair /\ ~places[1].isVerified /\ places[2].isVerified)
        => deduped = << [places[2] EXCEPT !.id = places[1].id] >>

C1_Witness ==
    /\ pc = "deduped" /\ SameKeyPair
    /\ ~places[1].isVerified /\ places[2].isVerified
    /\ places[1].id = "p1" /\ places[2].id = "p9"
    /\ places[1].coordinates = {} /\ places[2].coordinates = GoodCoords
    /\ Len(deduped) = 1 /\ deduped[1].id = "p1" /\ deduped[1].coordinates = GoodCoords

\* C3 (as stated): the result never holds two records of one id.
C3_NoSharedId ==
    pc = "deduped" =>
        \A i, j \in 1..Len(deduped) : i # j => deduped[i].id # deduped[j].id

\* C4: deduplicatePlaces is idempotent: applied to its own result it returns
\* that result, record for record and in the same order.
C4_Idempotent ==
    pc = "deduped" => deduplicatePlaces(deduped) = deduped

C4_Witness ==
    /\ pc = "deduped" /\ Len(places) = 3 /\ Len(deduped) = 2
    /\ keyOf(places[1]) = keyOf(places[2])
    /\ Content(deduped[1]) = Content(places[2])
    /\ deduped[1].id # places[2].id
    /\ deduped[2] = places[3]

\* The orderings of a sequence.
Orderings(ps) ==
    { [i \in 1..Len(ps) |-> ps[f[i]]] :
        f \in { g \in [1..Len(ps) -> 1..Len(ps)] :
                  \A a, b \in 1..Len(ps) : a # b => g[a] # g[b] } }

\* For each key of a result, the content kept.
KeptFor(out) == { <<keyOf(r), Content(r)>> : r \in Range(out) }

\* What the merge compares: verification, completeness, description length.
Rank(r) == <<IF r.isVerified THEN 1 ELSE 0, Completeness(r), Len(r.description)>>

RankLE(a, b) ==
    \/ a[1] < b[1]
    \/ a[1] = b[1] /\ a[2] < b[2]
    \/ a[1] = b[1] /\ a[2] = b[2] /\ a[3] <= b[3]

RankFor(out) == { <<keyOf(r), Rank(r)>> : r \in Range(out) }

\* The contents of the records of key k that no record of key k outranks.
Best(ps, k) ==
    { Content(ps[i]) : i \in { n \in 1..Len(ps) :
        /\ keyOf(ps[n]) = k
        /\ \A m \in 1..Len(ps) : keyOf(ps[m]) = k => RankLE(Rank(ps[m]), Rank(ps[n])) } }

NoTieAtBest(ps) == \A i \in 1..Len(ps) : Cardinality(Best(ps, keyOf(ps[i]))) = 1

\* C5 (as stated): in every ordering of the argument the content kept for
\* each key is the same.
C5_OrderIndependentContent ==
    pc = "deduped" =>
        \A q \in Orderings(places) : KeptFor(deduplicatePlaces(q)) = KeptFor(deduped)

\* C5 (amended): in every ordering of the argument the record kept for each
\* key has the same verification status, completeness and description
\* length, and the same content when the best records of the key do not tie.
C5_OrderIndependentRank ==
    pc = "deduped" =>
        LET rank == RankFor(deduped)
            kept == KeptFor(deduped)
            noTie == NoTieAtBest(places)
        IN \A q \in Orderings(places) :
               LET other == deduplicatePlaces(q)
               IN /\ RankFor(other) = rank
                  /\ noTie => KeptFor(other) = kept

C5_Witness ==
    /\ pc = "deduped" /\ Len(places) = 3 /\ Len(deduped) = 1
    /\ NoTieAtBest(places)
    /\ Cardinality({ Content(places[i]) : i \in 1..3 }) = 3
    /\ Content(deduped[1]) = Content(places[2])
    /\ \E q \in Orderings(places) : deduplicatePlaces(q)[1].id # deduped[1].id

\* C6 (as stated): two records of one key, equal in verification, in the
\* presence of coordinates, address and image and in description length,
\* leave the earlier record, unchanged.
C6_TieKeepsEarlier ==
    (/\ pc = "deduped" /\ SameKeyPair
     /\ places[1].isVerified = places[2].isVerified
     /\ (places[1].coordinates = {}) = (places[2].coordinates = {})
     /\ (places[1].address = <<>>) = (places[2].address = <<>>)
     /\ (places[1].imageUri = <<>>) = (places[2].imageUri = <<>>)
     /\ Len(places[1].description) = Len(places[2].description))
        => deduped = << places[1] >>

\* C7 (as stated): the key is the map URI only for a verified record with a
\* non-generic URI, and the name key otherwise; so two unverified records of
\* one name and location are merged whatever their URIs.
C7_UriKeyOnlyWhenVerified ==
    pc = "deduped" =>
        /\ \A i \in 1..Len(places) :
               LET p == places[i]
               IN keyOf(p) =
                    IF /\ p.isVerified
                       /\ p.googleMapsUri # <<>>
                       /\ ~includes(p.googleMapsUri, SEARCH)
                    THEN uriKey(p)
                    ELSE nameKey(p)
        /\ (/\ Len(places) = 2
            /\ ~places[1].isVerified /\ ~places[2].isVerified
            /\ places[1].name = places[2].name
            /\ places[1].locationGuess = places[2].locationGuess)
               => Len(deduped) = 1

\* C8: of two records of one key and equal verification, the one of the
\* strictly higher completeness score supplies every field of the survivor,
\* which carries the id of the record that was there first.
C8_HigherScoreWins ==
    (pc = "deduped" /\ SameKeyPair /\ places[1].isVerified = places[2].isVerified)
        => /\ StatedScore(places[2], places[1]) > StatedScore(places[1], places[2])
                => deduped = << [places[2] EXCEPT !.id = places[1].id] >>
           /\ StatedScore(places[1], places[2]) > StatedScore(places[2], places[1])
                => deduped = << places[1] >>

C8_Witness ==
    /\ pc = "deduped" /\ SameKeyPair
    /\ places[1].isVerified = places[2].isVerified
    /\ places[1].imageUri # <<>> /\ places[2].imageUri = <<>>
    /\ places[2].coordinates # {}
    /\ StatedScore(places[1], places[2]) > StatedScore(places[2], places[1])
    /\ places[1].id # places[2].id
    /\ deduped = << places[1] >>

\* A record that carries coordinates the validator rejects.
InvalidCoords(r) ==
    /\ r.coordinates # {}
    /\ LET c == CHOOSE x \in r.coordinates : TRUE
       IN validateLatLng(c.lat, c.lng) = {}

\* C9 (as stated): a record of out-of-range or non-finite coordinates is
\* treated as having none: it gets no marker, no completeness bonus and no
\* placemark.
C9_InvalidCoordinatesAbsent ==
    /\ pc = "rendered" =>
           Len(markers) = Cardinality({ i \in 1..Len(deduped) :
               deduped[i].coordinates # {} /\ ~InvalidCoords(deduped[i]) })
    /\ pc = "deduped" =>
           \A r \in Range(places) :
               InvalidCoords(r) => baseScore(r) = baseScore([r EXCEPT !.coordinates = {}])
    /\ pc = "exported" =>
           \A i \in 1..Len(kml) : validateLatLng(kml[i].lat, kml[i].lng) # {}

KeysOf(ps) == [i \in 1..Len(ps) |-> keyOf(ps[i])]

\* A sequence of keys without the repetitions of a key after its first
\* occurrence.
RECURSIVE FirstSeen(_)
FirstSeen(ks) ==
    IF ks = <<>> THEN <<>>
    ELSE <<Head(ks)>> \o FirstSeen(SelectSeq(Tail(ks), LAMBDA k : k # Head(ks)))

\* C10: the keys of the result are the keys of the argument in the order of
\* their first appearance, also when a later duplicate replaced the fields;
\* so a catalogue at the front of the argument keeps its positions and ids,
\* and the records of new keys come after it.
C10_FirstSeenOrder ==
    pc = "deduped" =>
        /\ KeysOf(deduped) = FirstSeen(KeysOf(places))
        /\ \A n \in 0..Len(places) :
               LET catalogue == SubSeq(places, 1, n)
               IN KeysOf(catalogue) = FirstSeen(KeysOf(catalogue))
                    => /\ Len(deduped) >= n
                       /\ \A i \in 1..n : /\ keyOf(deduped[i]) = keyOf(catalogue[i])
                                          /\ deduped[i].id = catalogue[i].id

C10_Witness ==
    /\ pc = "deduped" /\ Len(places) = 3 /\ Len(deduped) = 2
    /\ keyOf(places[1]) = keyOf(places[3])
    /\ keyOf(places[1]) # keyOf(places[2])
    /\ Content(deduped[1]) = Content(places[3])
    /\ Content(deduped[1]) # Content(places[1])
    /\ deduped[2] = places[2]

----------------------------------------------------------------------------
(* Properties of the App, checked under Spec *)

IdsOf(ps) == { ps[i].id : i \in 1..Len(ps) }

placesOf(res) == (CHOOSE r \in res : TRUE).places

\* C2: a completed append on a catalogue leaves every id of the catalogue
\* in the catalogue, on a record of the same key; a selection that pointed
\* to a record still does.
C2_AppendKeepsIds ==
    [][ (pendingAppend' < pendingAppend /\ result # {}) =>
            /\ result' # {}
            /\ \A i \in 1..Len(placesOf(result)) :
                   \E j \in 1..Len(placesOf(result')) :
                       /\ placesOf(result')[j].id = placesOf(result)[i].id
                       /\ keyOf(placesOf(result')[j]) = keyOf(placesOf(result)[i])
            /\ selectedPlaceId \in IdsOf(placesOf(result))
                   => selectedPlaceId' \in IdsOf(placesOf(result')) ]_vars

C2_Witness ==
    /\ pc = "app" /\ result # {}
    /\ Len(places) = 2 /\ keyOf(places[1]) = keyOf(places[2])
    /\ places[1].id = "p1" /\ places[2].id = "p9"
    /\ Content(places[1]) # Content(places[2])
    /\ deduped = << [places[2] EXCEPT !.id = "p1"] >>
    /\ resultPlaces = deduped
    /\ selectedPlaceId = "p1"

----------------------------------------------------------------------------
(* Properties of retryOperation, checked under SpecRetry *)

\* The call has failed and every invocation of the operation was rejected
\* with a retryable, non-null error.
ExhaustedOnTransient == rpc = "thrown" /\ failedSoFar = "transient"

CaughtNonTransient ==
    /\ caught # <<>>
    /\ ~caught[1].isNull
    /\ ~isRetryable(caught[1])

\* C12: when an invocation fails with a non-transient error, the call fails
\* with that error at once: no delay is waited after that invocation and the
\* operation is not invoked again, whatever retries are left; when it is the
\* first invocation, the operation has been invoked exactly once.
C12_NonTransientPropagatesAtOnce ==
    CaughtNonTransient =>
        /\ rpc = "thrown"
        /\ outcome = <<[kind |-> "thrown", value |-> caught[1]]>>
        /\ Len(waited) = invocations - 1
        /\ retries = retryArgs.retries => invocations = 1 /\ waited = <<>>

C12_Witness ==
    /\ CaughtNonTransient
    /\ caught[1].status = n403
    /\ retries = retryArgs.retries
    /\ retries >= 2
    /\ rpc = "thrown"

\* The status and the message the classification rule of C13 reads.
StatedStatus(e) ==
    IF truthy(e.status) THEN e.status
    ELSE IF truthy(e.code) THEN e.code
    ELSE e.estatus

StatedMessage(e) == IF truthy(e.message) THEN e.message ELSE e.emessage

StatedTransient(e) ==
    \/ StatedStatus(e) \in {n500, n503, String(sINTERNAL)}
    \/ /\ StatedMessage(e).t = "string"
       /\ \E sub \in {sInternalError, s500, s503, sOverloaded, sCapacity} :
            includes(StatedMessage(e).v, sub)

\* C13: a non-null error is retried (while retries are left) if and only if
\* its status (error.status, else error.error.code, else error.error.status)
\* is 500, 503 or 'INTERNAL', or its message (error.message, else
\* error.error.message) contains 'Internal error', '500', '503', 'Overloaded'
\* or 'capacity'; any other error is thrown at once.
C13_TransientClassification ==
    caught # <<>> /\ ~caught[1].isNull =>
        /\ rpc = "wait" <=> StatedTransient(caught[1]) /\ retries > 0
        /\ ~StatedTransient(caught[1]) =>
             outcome = <<[kind |-> "thrown", value |-> caught[1]]>>

C13_Witness ==
    /\ rpc = "wait"
    /\ caught # <<>>
    /\ ~caught[1].isNull
    /\ ~truthy(caught[1].status)
    /\ ~truthy(caught[1].code)
    /\ ~truthy(caught[1].estatus)
    /\ includes(caught[1].message.v, sOverloaded)

RECURSIVE Pow2(_)
Pow2(n) == IF n <= 0 THEN 1 ELSE 2 * Pow2(n - 1)

\* C14: the delay waited before the k-th re-invocation is
\* initialDelay * 2^(k-1).
C14_DelayDoubles ==
    pc = "retry" =>
        \A k \in DOMAIN waited : waited[k] = retryArgs.delay * Pow2(k - 1)

C14_Witness == Len(waited) >= 3 /\ rpc = "call" /\ retryArgs.delay = 300

\* C15: a null or undefined rejection on the final attempt (no retries left)
\* makes the call fail with the generic unknown-error failure, not with an
\* error raised by reading a field of the absent error.
C15_NullOnFinalAttempt ==
    caught # <<>> /\ caught[1].isNull /\ retries <= 0 =>
        /\ rpc = "thrown"
        /\ outcome = <<[kind |-> "thrown", value |-> UnknownError]>>

C15_Witness ==
    /\ caught # <<>>
    /\ caught[1].isNull
    /\ retries <= 0
    /\ rpc = "thrown"
    /\ invocations >= 2

\* C16: after the attempts are exhausted on transient failures, the error
\* thrown is the very object the last invocation raised, unchanged.
C16_LastErrorRethrown ==
    ExhaustedOnTransient =>
        /\ outcome = <<[kind |-> "thrown", value |-> caught[1]]>>
        /\ outcome[1].value.raisedAt = invocations

C16_Witness ==
    /\ ExhaustedOnTransient
    /\ invocations >= 2
    /\ outcome[1].value.status = n503
    /\ outcome[1].value.raisedAt = invocations

----------------------------------------------------------------------------
(* Properties of the cross-referencing step, checked under SpecXref *)

\* The post-processing has run: places[i] is parsed[i] after it.
Reconciled == pc = "reconciled"

citations == IF groundingChunks = {} THEN <<>> ELSE CHOOSE x \in groundingChunks : TRUE

\* The citation names the record: its title contains the raw name, or its
\* URI contains the URL-encoded name.
Names(c, p) ==
    \/ includes(chunkTitle(c), p.name)
    \/ includes(chunkUrl(c), encodeURIComponent(p.name))

\* The model proposed a map URI for the record, and not one of the map
\* provider's domain.
ProposedElsewhere(p) ==
    p.googleMapsUri # <<>> /\ ~includes(p.googleMapsUri, GOOGLE)

\* C17 (as stated): a named record whose proposed map URI does not contain
\* 'google' is left with isVerified = false, whatever the citations hold.
C17_NoDomainNeverVerified ==
    Reconciled =>
        \A i \in DOMAIN parsed :
            parsed[i].name # <<>> /\ ProposedElsewhere(parsed[i]) =>
                ~places[i].isVerified

\* C17 (amended): for a record whose proposed map URI does not contain
\* 'google', the proposed URI is never kept, and isVerified is false unless a
\* citation that names the record carries a URI; a URI the record ends with
\* is that of such a citation and contains 'google'.
C17_NoDomainNeverKept ==
    Reconciled =>
        \A i \in DOMAIN parsed :
            ProposedElsewhere(parsed[i]) =>
                /\ places[i].googleMapsUri # parsed[i].googleMapsUri
                /\ places[i].isVerified =>
                     \E k \in DOMAIN citations :
                        Names(citations[k], parsed[i]) /\ chunkUrl(citations[k]) # <<>>
                /\ places[i].googleMapsUri # <<>> =>
                     /\ places[i].isVerified
                     /\ includes(places[i].googleMapsUri, GOOGLE)
                     /\ \E k \in DOMAIN citations :
                          /\ Names(citations[k], parsed[i])
                          /\ places[i].googleMapsUri = chunkUrl(citations[k])

C17_Witness ==
    /\ Reconciled
    /\ \E i \in DOMAIN parsed :
         /\ parsed[i].googleMapsUri = UriYelp
         /\ places[i].isVerified
         /\ places[i].googleMapsUri = UriB

\* C18: after the cross-referencing step a named record is either verified
\* with the URI of a citation that names it, or unverified with no URI.
C18_VerifiedWithUriOrCleared ==
    Reconciled =>
        \A i \in DOMAIN parsed :
            \/ parsed[i].name = <<>>
            \/ /\ places[i].isVerified
               /\ places[i].googleMapsUri # <<>>
               /\ \E k \in DOMAIN citations :
                    /\ Names(citations[k], parsed[i])
                    /\ places[i].googleMapsUri = chunkUrl(citations[k])
            \/ /\ ~places[i].isVerified
               /\ places[i].googleMapsUri = <<>>

\* The citation is evidence for the record: it names it, by a name that is
\* not empty.
EvidenceFor(c, p) == p.name # <<>> /\ Names(c, p)

\* The name is empty or a proper part of the other.
ProperPart(a, b) == a # b /\ includes(b, a)

\* C19: a record whose name is empty or a part of another record's name is
\* not verified by citations that are evidence for that other record.
C19_EvidenceVerifiesOwnRecordOnly ==
    Reconciled =>
        \A i, j \in DOMAIN parsed :
            /\ i # j
            /\ ProperPart(parsed[j].name, parsed[i].name)
            /\ \A k \in DOMAIN citations :
                 Names(citations[k], parsed[j]) => EvidenceFor(citations[k], parsed[i])
            => ~places[j].isVerified

\* C20: a named record is verified when the first citation that names it
\* (by its title, or by its URI alone) carries a URI.
C20_TitleOrUriSuffices ==
    Reconciled =>
        \A i \in DOMAIN parsed :
            \A k \in DOMAIN citations :
                /\ parsed[i].name # <<>>
                /\ Names(citations[k], parsed[i])
                /\ \A m \in 1..(k - 1) : ~Names(citations[m], parsed[i])
                /\ chunkUrl(citations[k]) # <<>>
                => places[i].isVerified

----------------------------------------------------------------------------
(* Further properties of deduplicatePlaces, checked under SpecDedup *)

\* The index of the first record of the argument with the key.
FirstIndexOf(ps, k) ==
    CHOOSE i \in DOMAIN ps :
        keyOf(ps[i]) = k /\ \A j \in 1..(i - 1) : keyOf(ps[j]) # k

\* C27: the result holds exactly one record per key of the argument; each is,
\* id aside, one of the argument's records of that key, and carries the id of
\* the first record of the argument with that key.
C27_OneUnblendedRecordPerKey ==
    pc = "deduped" =>
        /\ Len(deduped) = Cardinality(Range(KeysOf(places)))
        /\ Range(KeysOf(deduped)) = Range(KeysOf(places))
        /\ \A n \in DOMAIN deduped :
             /\ \E i \in DOMAIN places :
                  /\ keyOf(places[i]) = keyOf(deduped[n])
                  /\ Content(places[i]) = Content(deduped[n])
             /\ deduped[n].id = places[FirstIndexOf(places, keyOf(deduped[n]))].id

C27_Witness ==
    /\ pc = "deduped"
    /\ Len(places) = 3
    /\ Len(deduped) = 1
    /\ places[1].address # <<>>
    /\ deduped[1].isVerified
    /\ deduped[1].address = <<>>
    /\ deduped[1].id = places[1].id
    /\ places[2].id # places[1].id

----------------------------------------------------------------------------
(* Further properties of retryOperation, checked under SpecRetryFair *)

\* The call of retryOperation has settled.
Settled == rpc = "returned" \/ rpc = "thrown"

\* C28: when the operation succeeds after k transient failures, the call
\* returns the value of that invocation, number k + 1, and the operation is
\* not invoked again; the operation is never invoked more often than the
\* retries allow; and the call settles.
C28_ReturnsFirstSuccessAndTerminates ==
    /\ [](rpc = "returned" =>
            /\ invocations = Len(waited) + 1
            /\ outcome = <<[kind |-> "returned", value |-> [resolvedAt |-> invocations]]>>)
    /\ [](pc = "retry" => invocations <= retryArgs.retries + 1)
    /\ [][Settled => invocations' = invocations]_vars
    /\ (pc = "retry" => <>Settled)

C28_Witness ==
    /\ rpc = "returned"
    /\ failedSoFar = "transient"
    /\ invocations = retryArgs.retries + 1
    /\ invocations >= 3

\* C30: a null or undefined rejection while retries remain is followed by a
\* wait of the present delay and a further invocation; with no retries left
\* it fails with the generic unknown-error failure.
C30_NullRetriedWhileRetriesRemain ==
    /\ [](caught # <<>> /\ caught[1].isNull =>
            IF retries > 0
            THEN /\ rpc = "wait"
                 /\ outcome = <<>>
                 /\ waited # <<>>
                 /\ waited[Len(waited)] = delay
            ELSE /\ rpc = "thrown"
                 /\ outcome = <<[kind |-> "thrown", value |-> UnknownError]>>)
    /\ [][rpc = "wait" => rpc' = "call" /\ retries' = retries - 1]_vars
    /\ [](rpc = "wait" => <>(invocations = Len(waited) + 1))

C30_Witness ==
    /\ caught # <<>>
    /\ caught[1].isNull
    /\ rpc = "wait"
    /\ retries = 1
    /\ invocations >= 2

----------------------------------------------------------------------------
(* Further properties of the App, checked under Spec *)

\* C26: a step that starts an extraction, and a step in which an analyze or
\* an append fails, leave the catalogue (its records, ids and order) as it
\* was; the catalogue changes with an extraction only when it succeeds.
C26_FailureLeavesCatalogue ==
    [][ /\ StartAnalyze \/ StartAppend \/ AnalyzeFails \/ AppendFails => result' = result
        /\ (pendingAnalyze' + pendingAppend' < pendingAnalyze + pendingAppend
              /\ result' # result)
           => AnalyzeSucceeds \/ AppendSucceeds ]_vars

C26_Witness ==
    /\ pc = "app"
    /\ result # {}
    /\ Len(resultPlaces) = 2
    /\ error = "failed"
    /\ pendingAppend = 1
    /\ pendingAnalyze = 0
    /\ ~isLoading

\* C29: an append that completes on a catalogue made by an earlier append
\* (of the batch b1 to the catalogue c0, places = c0 ++ b1) gives, for its
\* batch b2, deduplicatePlaces(c0 ++ b1 ++ b2), whichever of the two was
\* started first; no key of b1 or b2 is lost.
C29_AppendsCompose ==
    [][ (pendingAppend' < pendingAppend /\ result' # result /\ result # {} /\ places # <<>>) =>
          \E b2 \in Batches :
             /\ places' = placesOf(result) \o b2
             /\ placesOf(result') = deduplicatePlaces(places \o b2)
             /\ Range(KeysOf(places)) \cup Range(KeysOf(b2))
                  = Range(KeysOf(placesOf(result'))) ]_vars

C29_Witness ==
    /\ pc = "app"
    /\ pendingAppend = 1
    /\ result # {}
    /\ places # <<>>
    /\ Len(resultPlaces) < Len(places)
    /\ resultPlaces = deduped
    /\ isLoading = FALSE

----------------------------------------------------------------------------
(* Properties of parseLocation and of deduplicatePlaces on records with     *)
(* fields left out, checked under SpecLocate                                *)

\* C24: deduplicatePlaces and parseLocation never raise: the empty
\* collection gives the empty result, the empty and the absent label give
\* the unclassified pair, and a record with a missing or empty name,
\* locationGuess or description is handled with defaults.
C24_NeverRaises ==
    /\ raised = <<>>
    /\ pc # "threw"
    /\ (pc = "deduped" /\ places = <<>>) => deduped = <<>>
    /\ (location # <<>> /\ ~truthy(label)) => location[1] = Unclassified

\* The label as a string, the absent label being the empty one.
LabelText == IF label.t = "string" THEN label.v ELSE <<>>

\* The label without a country name at its start and without white space
\* at either end.
Remainder ==
    IF \E c \in CountryPrefixes :
          Len(LabelText) >= Len(c) /\ SubSeq(LabelText, 1, Len(c)) = c
    THEN trim(SubSeq(LabelText, 3, Len(LabelText)))
    ELSE trim(LabelText)

\* s with every run of white space made one space.
RECURSIVE Collapse(_)
Collapse(s) ==
    IF s = <<>> THEN <<>>
    ELSE IF ~IsSpace(Head(s)) THEN <<Head(s)>> \o Collapse(Tail(s))
    ELSE IF Tail(s) # <<>> /\ IsSpace(Head(Tail(s))) THEN Collapse(Tail(s))
    ELSE <<" ">> \o Collapse(Tail(s))

\* C25: with the country name stripped, parseLocation returns the
\* unclassified pair when nothing is left; the first token and the other
\* tokens joined by one space each when there are two tokens or more;
\* else the text up to its last administrative suffix that has two
\* characters before it and one after, and the text after it; else the
\* whole text and the city-only district.
C25_ParseLocationCases ==
    location # <<>> =>
        LET r == location[1]
            rest == Remainder
            n == Len(r.city)
        IN IF rest = <<>> THEN r = Unclassified
           ELSE IF \E i \in DOMAIN rest : IsSpace(rest[i])
           THEN /\ n >= 1
                /\ n < Len(rest)
                /\ r.city = SubSeq(rest, 1, n)
                /\ \A i \in 1..n : ~IsSpace(rest[i])
                /\ IsSpace(rest[n + 1])
                /\ r.district = Tail(Collapse(SubSeq(rest, n + 1, Len(rest))))
           ELSE IF \E i \in 3..(Len(rest) - 1) : rest[i] \in AdminSuffixes
           THEN /\ r.city \o r.district = rest
                /\ n >= 3
                /\ r.city[n] \in AdminSuffixes
                /\ r.district # <<>>
                /\ \A k \in 1..(Len(r.district) - 1) : r.district[k] \notin AdminSuffixes
           ELSE r = [city |-> rest, district |-> CityOnlyDistrict]

\* A label of a country name and three tokens between runs of white space
\* has been decomposed.
C25_Witness ==
    /\ label = String(<<"u53F0", "u7063", "\t", "K", "\t", " ", "K", " ", "K">>)
    /\ location = <<[city |-> <<"K">>, district |-> <<"K", " ", "K">>]>>

\* A label of one token with two suffix characters has been split at the
\* second.
C25_WitnessSuffix ==
    /\ label = String(<<"K", "K", "u5E9C", "K", "K", "u5E02", "K">>)
    /\ location = <<[city |-> <<"K", "K", "u5E9C", "K", "K", "u5E02">>,
                     district |-> <<"K">>]>>

----------------------------------------------------------------------------
(* Properties of cleanAndParseJSON and of analyzeMapData's use of it,       *)
(* checked under SpecParse                                                  *)

\* The response text is, as a whole, strictly valid JSON for an array of
\* one object or more.
BareArrayOfRecords ==
    /\ JSONparse(text).kind = "returned"
    /\ JSONparse(text).value.t = "array"
    /\ JSONparse(text).value.v # <<>>
    /\ \A i \in DOMAIN JSONparse(text).value.v : JSONparse(text).value.v[i].t = "object"

\* C21: when the response text is a bare JSON array of place records, the
\* parser returns the placeholder summary with places equal to that array,
\* all its elements in order, whatever its length.
C21_BareArrayWrapped ==
    (parsedJson # <<>> /\ BareArrayOfRecords) =>
        parsedJson[1] =
            [kind |-> "returned",
             value |-> JObject(<<Member(KeySummary, String(PlaceholderSummary)),
                                 Member(KeyPlaces, JSONparse(text).value)>>)]

\* The parser gave an object that has a summary and an array of places.
Recovered ==
    /\ parsedJson # <<>>
    /\ parsedJson[1].kind = "returned"
    /\ get(parsedJson[1].value, KeySummary) # {}
    /\ \E x \in get(parsedJson[1].value, KeyPlaces) : x.t = "array"

\* C22: when every stage of the parser fails, the caller receives an error
\* that carries the response text; and a successful result with no place
\* is returned only for a response that was recovered into a summary and
\* an array of places.
C22_FailureSurfacesWithText ==
    analysis # <<>> =>
        /\ (parsedJson # <<>> /\ parsedJson[1].kind = "thrown") =>
               (analysis[1].kind = "thrown" /\ includes(analysis[1].value, text))
        /\ (analysis[1].kind = "returned" /\ analysis[1].value.places = <<>>) =>
               Recovered

\* C23: a response text that is, as a whole, strictly valid JSON for an
\* object is returned as the strict parse of the untouched text: the later
\* stages alter nothing of it.
C23_StrictParseWins ==
    (/\ parsedJson # <<>>
     /\ JSONparse(text).kind = "returned"
     /\ JSONparse(text).value.t = "object") =>
        parsedJson[1] = JSONparse(text)

====
